---- MODULE Spec2Model ----
(***************************************************************************)
(* Delivery pipeline of webhook-services: the control table                *)
(* stt_envio_controle, STTDeduplicationService (canSendToSTT, acquireLock, *)
(* releaseLock, cleanupStuckLocks), STTSendService.sendToSTT and its       *)
(* helpers, STTService (findPendingConsultas, processarPendentes) and      *)
(* STTController.retryVoucher.  Every awaited store or network call is one *)
(* step of the process that issues it; processes interleave at the awaits. *)
(* Time is counted in minutes.                                             *)
(***************************************************************************)
EXTENDS Integers, Sequences, FiniteSets, TLC

(* ---------------------------- bounds ---------------------------------- *)
MaxTicks == 3
MaxStarts == 3
RowNow == 30

(* ----------------------- program constants ---------------------------- *)
NULL == -1
DefaultLockTimeoutMinutes == 5
RetryMinutes == 30
MaxRetryTentativas == 3
MinutesPerDay == 1440
RetryDays == 90
RetryLimit == 1

Procs == {"p1", "p2"}

(* The source tables (consultas, evolucoes, agendamentos_stt): read-only.  *)
(* c1 and c2 are finalized consultas with an evolucao, c3 is not finalized, *)
(* c4 has no evolucao.                                                     *)
Consultas == {"c1", "c2", "c3", "c4"}

ConsultaRow(c) ==
  CASE c = "c1" ->
         [voucher |-> "V1", status |-> "finalizada", evolucao |-> TRUE,
          codigoInterno |-> "K1", updatedAt |-> 0 - MinutesPerDay]
    [] c = "c2" ->
         [voucher |-> "V2", status |-> "finalizada", evolucao |-> TRUE,
          codigoInterno |-> "K2", updatedAt |-> 0 - 30 * MinutesPerDay]
    [] c = "c3" ->
         [voucher |-> "V3", status |-> "agendada", evolucao |-> TRUE,
          codigoInterno |-> "K3", updatedAt |-> 0 - 2 * MinutesPerDay]
    [] OTHER ->
         [voucher |-> "V4", status |-> "finalizada", evolucao |-> FALSE,
          codigoInterno |-> "K4", updatedAt |-> 0 - 3 * MinutesPerDay]

Vouchers == {ConsultaRow(c).voucher : c \in Consultas}

(* The deployments explored: overlapping triggers on one record, one       *)
(* handler at a time over both records, and one record over a longer time  *)
(* with a document renderer that fails (gerarPdfEvolucao returns the empty *)
(* string), and one record under STT_MODO_TESTE.  starts and ticks bound   *)
(* the handler calls and the clock; lockTimeoutMinutes is                  *)
(* config.timeouts.lockTimeoutMinutes, modoTeste is config.stt.modoTeste,  *)
(* second is what the second process serves.                               *)
Environments ==
  { [consultas |-> {"c1"}, procs |-> {"p1", "p2"}, pdf |-> "PDF",
     starts |-> MaxStarts - 1, ticks |-> MaxTicks - 1,
     lockTimeoutMinutes |-> DefaultLockTimeoutMinutes,
     modoTeste |-> FALSE, second |-> {"send"}],
    [consultas |-> {"c1", "c2"}, procs |-> {"p1"}, pdf |-> "PDF",
     starts |-> MaxStarts - 1, ticks |-> MaxTicks - 3,
     lockTimeoutMinutes |-> DefaultLockTimeoutMinutes,
     modoTeste |-> FALSE, second |-> {"send"}],
    [consultas |-> {"c1"}, procs |-> {"p1"}, pdf |-> "",
     starts |-> MaxStarts, ticks |-> MaxTicks,
     lockTimeoutMinutes |-> DefaultLockTimeoutMinutes,
     modoTeste |-> FALSE, second |-> {"send"}],
    [consultas |-> {"c1"}, procs |-> {"p1"}, pdf |-> "PDF",
     starts |-> MaxStarts - 1, ticks |-> MaxTicks - 3,
     lockTimeoutMinutes |-> DefaultLockTimeoutMinutes,
     modoTeste |-> TRUE, second |-> {"send"}] }

(* HTTP answers of the downstream system: axios resolves 2xx and rejects   *)
(* the rest with error.response set.                                       *)
Responses ==
  { [status |-> 200, data |-> "ok",      headers |-> "h200", statusText |-> "OK"],
    [status |-> 201, data |-> "created", headers |-> "h201", statusText |-> "Created"],
    [status |-> 500, data |-> "fail",    headers |-> "h500", statusText |-> "Internal Server Error"] }

NoResponse == [status |-> NULL, data |-> "", headers |-> "", statusText |-> ""]

(* The response sendToSTT makes up under modoTeste *)
SimulatedResponse ==
  [status |-> 200, data |-> "simulated", headers |-> "x-simulated",
   statusText |-> ""]

(* ProcessOptions accepted by POST /process (days, limit, dryRun).         *)
ProcessOptions ==
  { [days |-> 7,  limit |-> 2, dryRun |-> FALSE],
    [days |-> 90, limit |-> 2, dryRun |-> FALSE],
    [days |-> 90, limit |-> 2, dryRun |-> TRUE] }

NoOptions == [days |-> 0, limit |-> 0, dryRun |-> FALSE]

VARIABLES
  env,        \* consultas table, handler processes, document renderer
  now,        \* NOW() / Date.now(), in minutes
  ctl,        \* stt_envio_controle, one row per consulta_id (unique key)
  pc,         \* position of each process in its handler
  mode,       \* what the process runs: "idle", "send", "batch", "retry"
  inv,        \* frame (locals) of the handler call each process is running
  result,     \* SendResult returned by the last sendToSTT of each process
  options,    \* ProcessOptions of the running processarPendentes
  pendentes,  \* candidates still to be processed by the batch loop
  report,     \* ProcessResult being accumulated
  dispatches, \* outbound POSTs issued per consulta
  everSent,   \* the row once held enviado = true with status 200
  starts,     \* handler calls received so far
  retrying,   \* voucher of the retryVoucher request each process last served
  cleaned     \* rows updated by the cleanupStuckLocks call of the running batch

vars == <<env, now, ctl, pc, mode, inv, result, options, pendentes, report,
          dispatches, everSent, starts, retrying, cleaned>>

(* Triggers each process serves: p1 every route, p2 a second, overlapping  *)
(* pipeline invocation or batch run.                                       *)
Handlers(p) == IF p = "p1" THEN {"send", "batch", "retry"} ELSE env.second

(* config.timeouts.lockTimeoutMinutes of the running deployment *)
LockTimeoutMinutes == env.lockTimeoutMinutes

(* One step of the clock: twice the lock timeout *)
TickMinutes == 2 * LockTimeoutMinutes

(* ------------------------- control rows -------------------------------- *)
NoPayload == [casoId |-> "", pdf |-> ""]

NoRow ==
  [exists |-> FALSE, voucher |-> "", enviado |-> FALSE, tentativas |-> 0,
   processandoDesde |-> NULL, proximoRetry |-> NULL, dataEnvio |-> NULL,
   respostaStatusCode |-> NULL, respostaBody |-> "", respostaHeaders |-> "",
   respostaErro |-> "", payloadEnviado |-> NoPayload,
   codigoInternoStt |-> ""]

NoReason == [text |-> "", arg |-> NULL]

NoResult == [success |-> FALSE, status |-> "NONE", reason |-> NoReason,
             httpStatus |-> NULL]

NoInv == [consultaId |-> "", voucher |-> "", lockAcquired |-> FALSE,
          payload |-> NoPayload, response |-> NoResponse, error |-> "",
          ret |-> NoResult, releases |-> 0]

NoReport == [total |-> 0, processados |-> 0, sucesso |-> 0, bloqueados |-> 0,
             erros |-> 0, detalhes |-> << >>]

EnviadoComSucesso(row) ==
  row.exists /\ row.enviado /\ row.respostaStatusCode = 200

(* the lock check with the timeout written as the literal 5 minutes *)
EmProcessamento_FiveMinutes(row, t) ==
  /\ row.exists
  /\ row.processandoDesde # NULL
  /\ row.processandoDesde > t - 5

(* processando_desde > NOW() - INTERVAL lockTimeoutMinutes                 *)
EmProcessamento(row, t) ==
  /\ row.exists
  /\ row.processandoDesde # NULL
  /\ row.processandoDesde > t - LockTimeoutMinutes

(* canSendToSTT without its first query (the delivered check) *)
canSendToSTT_OnlyLockCheck(row, t) ==
  IF EmProcessamento(row, t)
  THEN [canSend |-> FALSE,
        reason |-> [text |-> "Em processamento ha",
                    arg |-> (t - row.processandoDesde) * 60]]
  ELSE [canSend |-> TRUE, reason |-> NoReason]

(* STTDeduplicationService.canSendToSTT *)
canSendToSTT(row, t) ==
  IF EnviadoComSucesso(row)
  THEN [canSend |-> FALSE,
        reason |-> [text |-> "Ja enviado com sucesso em", arg |-> row.dataEnvio]]
  ELSE IF EmProcessamento(row, t)
  THEN [canSend |-> FALSE,
        reason |-> [text |-> "Em processamento ha",
                    arg |-> (t - row.processandoDesde) * 60]]
  ELSE [canSend |-> TRUE, reason |-> NoReason]

(* WHERE clause of the ON CONFLICT DO UPDATE of acquireLock *)
AcquireWhere(row) ==
  \/ ~row.enviado
  \/ (row.respostaStatusCode # NULL /\ row.respostaStatusCode # 200)
  \/ row.respostaStatusCode = NULL

(* CASE expression that computes processando_desde in acquireLock *)
AcquireProcessandoDesde(row, t) ==
  IF \/ row.processandoDesde = NULL
     \/ row.processandoDesde < t - LockTimeoutMinutes
     \/ row.enviado
  THEN t
  ELSE row.processandoDesde

(* Rows affected by the upsert of acquireLock *)
AcquireAffected(row) == IF ~row.exists \/ AcquireWhere(row) THEN 1 ELSE 0

(* upsert of acquireLock whose insert does not count the attempt *)
AcquireRow_InsertUncounted(row, voucher, t) ==
  IF ~row.exists
  THEN [NoRow EXCEPT !.exists = TRUE, !.voucher = voucher, !.enviado = FALSE,
                     !.tentativas = 0, !.processandoDesde = t]
  ELSE IF AcquireWhere(row)
  THEN [row EXCEPT !.tentativas = row.tentativas + 1,
                   !.processandoDesde = AcquireProcessandoDesde(row, t)]
  ELSE row

(* upsert of acquireLock that counts an attempt on a row its WHERE refuses *)
AcquireRow_CountsRefused(row, voucher, t) ==
  IF ~row.exists
  THEN [NoRow EXCEPT !.exists = TRUE, !.voucher = voucher, !.enviado = FALSE,
                     !.tentativas = 1, !.processandoDesde = t]
  ELSE IF AcquireWhere(row)
  THEN [row EXCEPT !.tentativas = row.tentativas + 1,
                   !.processandoDesde = AcquireProcessandoDesde(row, t)]
  ELSE [row EXCEPT !.tentativas = row.tentativas + 1]

(* Row left by the upsert of acquireLock *)
AcquireRow(row, voucher, t) ==
  IF ~row.exists
  THEN [NoRow EXCEPT !.exists = TRUE, !.voucher = voucher, !.enviado = FALSE,
                     !.tentativas = 1, !.processandoDesde = t]
  ELSE IF AcquireWhere(row)
  THEN [row EXCEPT !.tentativas = row.tentativas + 1,
                   !.processandoDesde = AcquireProcessandoDesde(row, t)]
  ELSE row

(* releaseLock whose UPDATE also resets tentativas *)
ReleaseRow_ResetsTentativas(row) ==
  IF row.exists THEN [row EXCEPT !.processandoDesde = NULL, !.tentativas = 0]
  ELSE row

(* releaseLock whose UPDATE clears nothing *)
ReleaseRow_Noop(row) == row

(* STTDeduplicationService.releaseLock: UPDATE ... WHERE consulta_id *)
ReleaseRow(row) ==
  IF row.exists THEN [row EXCEPT !.processandoDesde = NULL] ELSE row

(* STTDeduplicationService.cleanupStuckLocks *)
(* the cleanup condition with three lock timeouts instead of two *)
StuckLock_ThreeTimeouts(row, t) ==
  /\ row.exists
  /\ row.processandoDesde # NULL
  /\ row.processandoDesde < t - LockTimeoutMinutes * 3
  /\ ~row.enviado

StuckLock(row, t) ==
  /\ row.exists
  /\ row.processandoDesde # NULL
  /\ row.processandoDesde < t - LockTimeoutMinutes * 2
  /\ ~row.enviado

(* cleanupStuckLocks: the table after the UPDATE *)
cleanupStuckLocks(table, t) ==
  [c \in Consultas |-> IF StuckLock(table[c], t) THEN ReleaseRow(table[c])
                       ELSE table[c]]

(* cleanupStuckLocks: the number of rows the UPDATE changed, its result *)
cleanupStuckLocksResult(table, t) ==
  Cardinality({c \in Consultas : StuckLock(table[c], t)})

(* STTSendService.buildPayload: the fields of the wire payload that the    *)
(* control row and the dispatch carry.                                     *)
buildPayload(c, pdfBase64) ==
  [casoId |-> ConsultaRow(c).codigoInterno, pdf |-> pdfBase64]

(* atualizarResultado that takes every 2xx status for a success *)
atualizarResultado_Any2xx(row, c, payload, response, t) ==
  IF ~row.exists THEN row
  ELSE LET sucesso == response.status >= 200 /\ response.status < 300 IN
       [row EXCEPT !.enviado = sucesso,
                   !.dataEnvio = IF sucesso THEN t ELSE NULL,
                   !.respostaStatusCode = response.status,
                   !.respostaBody = response.data,
                   !.respostaHeaders = response.headers,
                   !.respostaErro = IF sucesso THEN "" ELSE response.statusText,
                   !.payloadEnviado = payload,
                   !.processandoDesde = NULL,
                   !.codigoInternoStt = ConsultaRow(c).codigoInterno]

(* atualizarResultado that also counts the dispatch as an attempt *)
atualizarResultado_CountsDispatch(row, c, payload, response, t) ==
  IF ~row.exists THEN row
  ELSE LET sucesso == response.status = 200 IN
       [row EXCEPT !.enviado = sucesso,
                   !.dataEnvio = IF sucesso THEN t ELSE NULL,
                   !.respostaStatusCode = response.status,
                   !.respostaBody = response.data,
                   !.respostaHeaders = response.headers,
                   !.respostaErro = IF sucesso THEN "" ELSE response.statusText,
                   !.payloadEnviado = payload,
                   !.processandoDesde = NULL,
                   !.tentativas = row.tentativas + 1,
                   !.codigoInternoStt = ConsultaRow(c).codigoInterno]

(* STTSendService.atualizarResultado: UPDATE ... WHERE consulta_id *)
atualizarResultado(row, c, payload, response, t) ==
  IF ~row.exists THEN row
  ELSE LET sucesso == response.status = 200 IN
       [row EXCEPT !.enviado = sucesso,
                   !.dataEnvio = IF sucesso THEN t ELSE NULL,
                   !.respostaStatusCode = response.status,
                   !.respostaBody = response.data,
                   !.respostaHeaders = response.headers,
                   !.respostaErro = IF sucesso THEN "" ELSE response.statusText,
                   !.payloadEnviado = payload,
                   !.processandoDesde = NULL,
                   !.codigoInternoStt = ConsultaRow(c).codigoInterno]

(* STTSendService.calculateNextRetry *)
calculateNextRetry(t) == t + RetryMinutes

(* registrarErro whose retry delay grows with the attempts count *)
registrarErro_Backoff(row, errorMessage, t) ==
  IF ~row.exists THEN row
  ELSE [row EXCEPT !.respostaErro = errorMessage,
                   !.respostaStatusCode = NULL,
                   !.proximoRetry = t + RetryMinutes * row.tentativas,
                   !.processandoDesde = NULL]

(* STTSendService.registrarErro: the errors that reach the catch block     *)
(* carry no response, so resposta_status_code is written as NULL.          *)
registrarErro(row, errorMessage, t) ==
  IF ~row.exists THEN row
  ELSE [row EXCEPT !.respostaErro = errorMessage,
                   !.respostaStatusCode = NULL,
                   !.proximoRetry = calculateNextRetry(t),
                   !.processandoDesde = NULL]

(* the selection without the retry branch: only consultas with no control *)
(* row are pending                                                         *)
Pendente_NeverAttempted(c, row, days, t) ==
  LET src == ConsultaRow(c) IN
  /\ src.status = "finalizada"
  /\ src.codigoInterno # ""
  /\ src.evolucao
  /\ src.updatedAt >= t - days * MinutesPerDay
  /\ ~row.exists

(* -------------------- STTService.findPendingConsultas ------------------ *)
(* the candidate query without the cap on tentativas *)
Pendente_NoCap(c, row, days, t) ==
  LET src == ConsultaRow(c) IN
  /\ src.status = "finalizada"
  /\ src.codigoInterno # ""
  /\ src.evolucao
  /\ src.updatedAt >= t - days * MinutesPerDay
  /\ \/ ~row.exists
     \/ /\ ~row.enviado
        /\ (row.proximoRetry = NULL \/ row.proximoRetry <= t)
        /\ (row.processandoDesde = NULL \/ row.processandoDesde < t - 5)

(* WHERE clause of the candidate query *)
Pendente(c, row, days, t) ==
  LET src == ConsultaRow(c) IN
  /\ src.status = "finalizada"
  /\ src.codigoInterno # ""
  /\ src.evolucao
  /\ src.updatedAt >= t - days * MinutesPerDay
  /\ \/ ~row.exists
     \/ /\ ~row.enviado
        /\ row.tentativas < MaxRetryTentativas
        /\ (row.proximoRetry = NULL \/ row.proximoRetry <= t)
        /\ (row.processandoDesde = NULL \/ row.processandoDesde < t - 5)

(* ORDER BY c."updatedAt" DESC *)
RECURSIVE OrderByUpdatedAtDesc(_)
OrderByUpdatedAtDesc(S) ==
  IF S = {} THEN << >>
  ELSE LET first == CHOOSE c \in S :
                      \A d \in S : ConsultaRow(c).updatedAt >= ConsultaRow(d).updatedAt
       IN <<first>> \o OrderByUpdatedAtDesc(S \ {first})

(* LIMIT n *)
Limit(seq, n) == SubSeq(seq, 1, IF Len(seq) < n THEN Len(seq) ELSE n)

PendingRow(c, row) ==
  [consulta_id |-> c, voucher |-> ConsultaRow(c).voucher,
   tentativas |-> IF row.exists THEN row.tentativas ELSE 0]

findPendingConsultas(source, table, opts, t) ==
  LET S == {c \in source : Pendente(c, table[c], opts.days, t)}
      ordered == Limit(OrderByUpdatedAtDesc(S), opts.limit)
  IN [i \in 1..Len(ordered) |-> PendingRow(ordered[i], table[ordered[i]])]

(* ------------------------------ Init ----------------------------------- *)
Init ==
  /\ env \in Environments
  /\ now = 0
  /\ ctl = [c \in Consultas |-> NoRow]
  /\ pc = [p \in Procs |-> "idle"]
  /\ mode = [p \in Procs |-> "idle"]
  /\ inv = [p \in Procs |-> NoInv]
  /\ result = [p \in Procs |-> NoResult]
  /\ options = [p \in Procs |-> NoOptions]
  /\ pendentes = [p \in Procs |-> << >>]
  /\ report = [p \in Procs |-> NoReport]
  /\ dispatches = [c \in Consultas |-> 0]
  /\ everSent = [c \in Consultas |-> FALSE]
  /\ starts = 0
  /\ retrying = [p \in Procs |-> ""]
  /\ cleaned = [p \in Procs |-> 0]

(* Frame of a fresh sendToSTT(consultaId, voucher) *)
NewInv(c, voucher) == [NoInv EXCEPT !.consultaId = c, !.voucher = voucher]

(* A direct call sendToSTT(consultaId, voucher) *)
StartSend(p, c) ==
  /\ pc[p] = "idle"
  /\ p \in env.procs /\ "send" \in Handlers(p)
  /\ c \in env.consultas
  /\ starts < env.starts
  /\ starts' = starts + 1
  /\ pc' = [pc EXCEPT ![p] = "check"]
  /\ mode' = [mode EXCEPT ![p] = "send"]
  /\ inv' = [inv EXCEPT ![p] = NewInv(c, ConsultaRow(c).voucher)]
  /\ result' = [result EXCEPT ![p] = NoResult]
  /\ report' = [report EXCEPT ![p] = NoReport]
  /\ retrying' = [retrying EXCEPT ![p] = ""]
  /\ UNCHANGED <<env, cleaned, now, ctl, options, pendentes, dispatches, everSent>>

(* sendToSTT step 1: canSendToSTT; BLOCKED returns through the finally *)
SendCheck(p) ==
  /\ pc[p] = "check"
  /\ LET check == canSendToSTT(ctl[inv[p].consultaId], now) IN
     IF ~check.canSend
     THEN /\ inv' = [inv EXCEPT ![p].ret =
                       [success |-> FALSE, status |-> "BLOCKED",
                        reason |-> check.reason, httpStatus |-> NULL]]
          /\ pc' = [pc EXCEPT ![p] = "finally"]
     ELSE /\ pc' = [pc EXCEPT ![p] = "lock"]
          /\ UNCHANGED inv
  /\ UNCHANGED <<env, retrying, cleaned, now, ctl, mode, result, options, pendentes, report,
                 dispatches, everSent, starts>>

(* sendToSTT that goes on to the fetch whatever acquireLock returned *)
SendLock_ProceedsUnlocked(p) ==
  /\ pc[p] = "lock"
  /\ LET c == inv[p].consultaId
         lockAcquired == AcquireAffected(ctl[c]) > 0
     IN /\ ctl' = [ctl EXCEPT ![c] = AcquireRow(ctl[c], inv[p].voucher, now)]
        /\ inv' = [inv EXCEPT ![p].lockAcquired = lockAcquired]
        /\ pc' = [pc EXCEPT ![p] = "fetch"]
  /\ UNCHANGED <<env, retrying, cleaned, now, mode, result, options, pendentes,
                 report, dispatches, everSent, starts>>

(* sendToSTT step 2: acquireLock, lockAcquired = result > 0 *)
SendLock(p) ==
  /\ pc[p] = "lock"
  /\ LET c == inv[p].consultaId
         lockAcquired == AcquireAffected(ctl[c]) > 0
     IN /\ ctl' = [ctl EXCEPT ![c] = AcquireRow(ctl[c], inv[p].voucher, now)]
        /\ inv' = [inv EXCEPT ![p].lockAcquired = lockAcquired]
        /\ pc' = [pc EXCEPT ![p] = IF lockAcquired THEN "fetch" ELSE "recheck"]
  /\ UNCHANGED <<env, retrying, cleaned, now, mode, result, options, pendentes, report,
                 dispatches, everSent, starts>>

(* sendToSTT: the second canSendToSTT after a failed acquireLock *)
SendRecheck(p) ==
  /\ pc[p] = "recheck"
  /\ LET checkAgain == canSendToSTT(ctl[inv[p].consultaId], now) IN
     inv' = [inv EXCEPT ![p].ret =
               [success |-> FALSE, status |-> "LOCK_FAILED",
                reason |-> IF checkAgain.reason # NoReason THEN checkAgain.reason
                           ELSE [text |-> "Nao foi possivel adquirir lock",
                                 arg |-> NULL],
                httpStatus |-> NULL]]
  /\ pc' = [pc EXCEPT ![p] = "finally"]
  /\ UNCHANGED <<env, retrying, cleaned, now, ctl, mode, result, options, pendentes, report,
                 dispatches, everSent, starts>>

(* sendToSTT step 3: buscarDadosConsulta returns the record, or null when  *)
(* no row matches or the query fails (its catch returns null).             *)
SendFetch(p) ==
  /\ pc[p] = "fetch"
  /\ \E found \in BOOLEAN :
       pc' = [pc EXCEPT ![p] = IF found THEN "build" ELSE "notfound"]
  /\ UNCHANGED <<env, retrying, cleaned, now, ctl, mode, inv, result, options, pendentes, report,
                 dispatches, everSent, starts>>

(* a not-found path that records the failure as the catch block does *)
SendNotFound_RecordsError(p) ==
  /\ pc[p] = "notfound"
  /\ LET c == inv[p].consultaId IN
     ctl' = [ctl EXCEPT ![c] = registrarErro(ctl[c], "Consulta nao encontrada",
                                             now)]
  /\ inv' = [inv EXCEPT ![p].releases = inv[p].releases + 1,
                        ![p].ret = [success |-> FALSE, status |-> "ERROR",
                                    reason |-> [text |-> "Consulta nao encontrada",
                                                arg |-> NULL],
                                    httpStatus |-> NULL]]
  /\ pc' = [pc EXCEPT ![p] = "finally"]
  /\ UNCHANGED <<env, retrying, cleaned, now, mode, result, options, pendentes,
                 report, dispatches, everSent, starts>>

(* sendToSTT: consulta not found, releaseLock before the return *)
SendNotFound(p) ==
  /\ pc[p] = "notfound"
  /\ LET c == inv[p].consultaId IN
     ctl' = [ctl EXCEPT ![c] = ReleaseRow(ctl[c])]
  /\ inv' = [inv EXCEPT ![p].releases = inv[p].releases + 1,
                        ![p].ret = [success |-> FALSE, status |-> "ERROR",
                                    reason |-> [text |-> "Consulta nao encontrada",
                                                arg |-> NULL],
                                    httpStatus |-> NULL]]
  /\ pc' = [pc EXCEPT ![p] = "finally"]
  /\ UNCHANGED <<env, retrying, cleaned, now, mode, result, options, pendentes, report,
                 dispatches, everSent, starts>>

(* a build step in which a failed rendering surfaces as an error *)
SendBuild_RenderFailureRaises(p) ==
  /\ pc[p] = "build"
  /\ \/ /\ env.pdf # ""
        /\ inv' = [inv EXCEPT ![p].payload =
                        buildPayload(inv[p].consultaId, env.pdf)]
        /\ pc' = [pc EXCEPT ![p] = "dispatch"]
     \/ /\ inv' = [inv EXCEPT ![p].error =
                     IF env.pdf = "" THEN "Consulta sem evolucao"
                     ELSE "Invalid time value"]
        /\ pc' = [pc EXCEPT ![p] = "catch"]
  /\ UNCHANGED <<env, retrying, cleaned, now, ctl, mode, result, options,
                 pendentes, report, dispatches, everSent, starts>>

(* sendToSTT step 4: buildPayload; gerarPdfEvolucao yields the document or *)
(* the empty string; formatting a timestamp may raise.                     *)
SendBuild(p) ==
  /\ pc[p] = "build"
  /\ \/ /\ inv' = [inv EXCEPT ![p].payload =
                        buildPayload(inv[p].consultaId, env.pdf)]
        /\ pc' = [pc EXCEPT ![p] = "dispatch"]
     \/ /\ inv' = [inv EXCEPT ![p].error = "Invalid time value"]
        /\ pc' = [pc EXCEPT ![p] = "catch"]
  /\ UNCHANGED <<env, retrying, cleaned, now, ctl, mode, result, options, pendentes, report,
                 dispatches, everSent, starts>>

(* sendToSTT step 5 without the modoTeste branch *)
SendDispatch_AlwaysPosts(p) ==
  /\ pc[p] = "dispatch"
  /\ dispatches' = [dispatches EXCEPT ![inv[p].consultaId] = @ + 1]
  /\ \/ \E response \in Responses :
          /\ inv' = [inv EXCEPT ![p].response = response]
          /\ pc' = [pc EXCEPT ![p] = "record"]
     \/ /\ inv' = [inv EXCEPT ![p].error = "timeout"]
        /\ pc' = [pc EXCEPT ![p] = "catch"]
  /\ UNCHANGED <<env, retrying, cleaned, now, ctl, mode, result, options, pendentes,
                 report, everSent, starts>>

(* sendToSTT step 5: under modoTeste the response is made up and nothing   *)
(* is sent; otherwise enviarHttpRequest returns every received response    *)
(* and rethrows when there was none (timeout, connection failure).         *)
SendDispatch(p) ==
  /\ pc[p] = "dispatch"
  /\ IF env.modoTeste
     THEN /\ inv' = [inv EXCEPT ![p].response = SimulatedResponse]
          /\ pc' = [pc EXCEPT ![p] = "record"]
          /\ UNCHANGED dispatches
     ELSE /\ dispatches' = [dispatches EXCEPT ![inv[p].consultaId] = @ + 1]
          /\ \/ \E response \in Responses :
                  /\ inv' = [inv EXCEPT ![p].response = response]
                  /\ pc' = [pc EXCEPT ![p] = "record"]
             \/ /\ inv' = [inv EXCEPT ![p].error = "timeout"]
                /\ pc' = [pc EXCEPT ![p] = "catch"]
  /\ UNCHANGED <<env, retrying, cleaned, now, ctl, mode, result, options, pendentes, report, everSent, starts>>

(* sendToSTT step 6: atualizarResultado, then return SENT; the UPDATE may  *)
(* raise.                                                                  *)
SendRecord(p) ==
  /\ pc[p] = "record"
  /\ LET c == inv[p].consultaId IN
     \/ /\ ctl' = [ctl EXCEPT ![c] = atualizarResultado(ctl[c], c, inv[p].payload,
                                                        inv[p].response, now)]
        /\ everSent' = [everSent EXCEPT ![c] = @ \/ EnviadoComSucesso(ctl'[c])]
        /\ inv' = [inv EXCEPT ![p].ret =
                      [success |-> TRUE, status |-> "SENT", reason |-> NoReason,
                       httpStatus |-> inv[p].response.status]]
        /\ pc' = [pc EXCEPT ![p] = "finally"]
     \/ /\ inv' = [inv EXCEPT ![p].error = "update failed"]
        /\ pc' = [pc EXCEPT ![p] = "catch"]
        /\ UNCHANGED <<ctl, everSent>>
  /\ UNCHANGED <<env, retrying, cleaned, now, mode, result, options, pendentes, report, dispatches,
                 starts>>

(* sendToSTT catch block: registrarErro, then return ERROR *)
SendCatch(p) ==
  /\ pc[p] = "catch"
  /\ LET c == inv[p].consultaId IN
     ctl' = [ctl EXCEPT ![c] = registrarErro(ctl[c], inv[p].error, now)]
  /\ inv' = [inv EXCEPT ![p].ret =
               [success |-> FALSE, status |-> "ERROR",
                reason |-> [text |-> inv[p].error, arg |-> NULL],
                httpStatus |-> NULL]]
  /\ pc' = [pc EXCEPT ![p] = "finally"]
  /\ UNCHANGED <<env, retrying, cleaned, now, mode, result, options, pendentes, report,
                 dispatches, everSent, starts>>

(* the counting with a failed lock acquisition counted as errored *)
CountResult_LockFailedAsError(rep, pendente, ret) ==
  [rep EXCEPT
     !.processados = @ + 1,
     !.sucesso = IF ret.success THEN @ + 1 ELSE @,
     !.bloqueados = IF ~ret.success /\ ret.status = "BLOCKED" THEN @ + 1 ELSE @,
     !.erros = IF ~ret.success /\ ret.status # "BLOCKED" THEN @ + 1 ELSE @,
     !.detalhes = Append(@, [voucher |-> pendente.voucher, status |-> ret.status,
                             tentativas |-> pendente.tentativas + 1])]

(* processarPendentes: counting of one SendResult and its detail entry *)
CountResult(rep, pendente, ret) ==
  [rep EXCEPT
     !.processados = @ + 1,
     !.sucesso = IF ret.success THEN @ + 1 ELSE @,
     !.bloqueados = IF ~ret.success /\ ret.status \in {"BLOCKED", "LOCK_FAILED"}
                    THEN @ + 1 ELSE @,
     !.erros = IF ~ret.success /\ ret.status \notin {"BLOCKED", "LOCK_FAILED"}
               THEN @ + 1 ELSE @,
     !.detalhes = Append(@, [voucher |-> pendente.voucher, status |-> ret.status,
                             tentativas |-> pendente.tentativas + 1])]

(* dry-run detail entries that report the attempt a live run would make *)
DryRunDetalhes_NextAttempt(found) ==
  [i \in 1..Len(found) |-> [voucher |-> found[i].voucher, status |-> "DRY_RUN",
                            tentativas |-> found[i].tentativas + 1]]

(* processarPendentes: the detail entries of a dry run *)
DryRunDetalhes(found) ==
  [i \in 1..Len(found) |-> [voucher |-> found[i].voucher, status |-> "DRY_RUN",
                            tentativas |-> found[i].tentativas]]

(* sendToSTT finally block: releaseLock, then the return reaches the       *)
(* caller; in a batch the loop counts the result and starts the next       *)
(* candidate, or returns the report.                                       *)
SendFinally(p) ==
  /\ pc[p] = "finally"
  /\ LET c == inv[p].consultaId
         ret == inv[p].ret
         rest == IF pendentes[p] = << >> THEN << >> ELSE Tail(pendentes[p])
     IN /\ ctl' = [ctl EXCEPT ![c] = ReleaseRow(ctl[c])]
        /\ result' = [result EXCEPT ![p] = ret]
        /\ IF mode[p] = "send"
           THEN UNCHANGED <<report, pendentes>>
           ELSE /\ report' = [report EXCEPT ![p] =
                                CountResult(report[p], Head(pendentes[p]), ret)]
                /\ pendentes' = [pendentes EXCEPT ![p] = rest]
        /\ IF rest = << >>
           THEN /\ pc' = [pc EXCEPT ![p] = "idle"]
                /\ mode' = [mode EXCEPT ![p] = "idle"]
                /\ inv' = [inv EXCEPT ![p] = NoInv]
                /\ options' = [options EXCEPT ![p] = NoOptions]
                /\ cleaned' = [cleaned EXCEPT ![p] = 0]
           ELSE /\ pc' = [pc EXCEPT ![p] = "check"]
                /\ inv' = [inv EXCEPT ![p] =
                             NewInv(rest[1].consulta_id, rest[1].voucher)]
                /\ UNCHANGED <<mode, options, cleaned>>
  /\ UNCHANGED <<env, retrying, now, dispatches, everSent, starts>>

(* POST /process: processarPendentes(options) *)
StartBatch(p, opts) ==
  /\ pc[p] = "idle"
  /\ p \in env.procs /\ "batch" \in Handlers(p)
  /\ starts < env.starts
  /\ starts' = starts + 1
  /\ pc' = [pc EXCEPT ![p] = "cleanup"]
  /\ mode' = [mode EXCEPT ![p] = "batch"]
  /\ options' = [options EXCEPT ![p] = opts]
  /\ result' = [result EXCEPT ![p] = NoResult]
  /\ report' = [report EXCEPT ![p] = NoReport]
  /\ retrying' = [retrying EXCEPT ![p] = ""]
  /\ UNCHANGED <<env, cleaned, now, ctl, inv, pendentes, dispatches, everSent>>

(* processarPendentes: cleanupStuckLocks *)
BatchCleanup(p) ==
  /\ pc[p] = "cleanup"
  /\ ctl' = cleanupStuckLocks(ctl, now)
  /\ cleaned' = [cleaned EXCEPT ![p] = cleanupStuckLocksResult(ctl, now)]
  /\ pc' = [pc EXCEPT ![p] = "find"]
  /\ UNCHANGED <<env, retrying, now, mode, inv, result, options, pendentes, report,
                 dispatches, everSent, starts>>

(* processarPendentes: findPendingConsultas, the report header, and the    *)
(* loop up to its first await (a dry run has none and returns).            *)
BatchFind(p) ==
  /\ pc[p] = "find"
  /\ LET found == findPendingConsultas(env.consultas, ctl, options[p], now) IN
     IF options[p].dryRun \/ found = << >>
     THEN /\ report' = [report EXCEPT ![p] =
                          [NoReport EXCEPT !.total = Len(found),
                                           !.detalhes = DryRunDetalhes(found)]]
          /\ pc' = [pc EXCEPT ![p] = "idle"]
          /\ mode' = [mode EXCEPT ![p] = "idle"]
          /\ options' = [options EXCEPT ![p] = NoOptions]
          /\ inv' = [inv EXCEPT ![p] = NoInv]
          /\ cleaned' = [cleaned EXCEPT ![p] = 0]
          /\ UNCHANGED pendentes
     ELSE /\ report' = [report EXCEPT ![p] = [NoReport EXCEPT !.total = Len(found)]]
          /\ pendentes' = [pendentes EXCEPT ![p] = found]
          /\ inv' = [inv EXCEPT ![p] = NewInv(found[1].consulta_id, found[1].voucher)]
          /\ pc' = [pc EXCEPT ![p] = "check"]
          /\ UNCHANGED <<mode, options, cleaned>>
  /\ UNCHANGED <<env, retrying, now, ctl, result, dispatches, everSent, starts>>

(* reset of retryVoucher that keeps the scheduled retry time *)
retryReset_KeepsRetryTime(row) ==
  IF ~row.exists THEN row
  ELSE [row EXCEPT !.enviado = FALSE,
                   !.processandoDesde = NULL,
                   !.tentativas = IF row.tentativas - 1 > 0
                                  THEN row.tentativas - 1 ELSE 0]

(* retryVoucher: the UPDATE that resets the control row *)
retryReset(row) ==
  IF ~row.exists THEN row
  ELSE [row EXCEPT !.enviado = FALSE,
                   !.processandoDesde = NULL,
                   !.tentativas = IF row.tentativas - 1 > 0
                                  THEN row.tentativas - 1 ELSE 0,
                   !.proximoRetry = NULL]

(* POST /retry/:voucher: the consulta is looked up by its voucher *)
StartRetry(p, voucher) ==
  /\ pc[p] = "idle"
  /\ p \in env.procs /\ "retry" \in Handlers(p)
  /\ starts < env.starts
  /\ starts' = starts + 1
  /\ \E c \in env.consultas :
       /\ ConsultaRow(c).voucher = voucher
       /\ inv' = [inv EXCEPT ![p] = NewInv(c, voucher)]
  /\ pc' = [pc EXCEPT ![p] = "reset"]
  /\ mode' = [mode EXCEPT ![p] = "retry"]
  /\ result' = [result EXCEPT ![p] = NoResult]
  /\ report' = [report EXCEPT ![p] = NoReport]
  /\ retrying' = [retrying EXCEPT ![p] = voucher]
  /\ UNCHANGED <<env, cleaned, now, ctl, options, pendentes, dispatches, everSent>>

(* retryVoucher: reset, then processarPendentes({days: 90, limit: 1}) *)
RetryReset(p) ==
  /\ pc[p] = "reset"
  /\ LET c == inv[p].consultaId IN
     ctl' = [ctl EXCEPT ![c] = retryReset(ctl[c])]
  /\ options' = [options EXCEPT ![p] =
                   [days |-> RetryDays, limit |-> RetryLimit, dryRun |-> FALSE]]
  /\ inv' = [inv EXCEPT ![p] = NoInv]
  /\ pc' = [pc EXCEPT ![p] = "cleanup"]
  /\ UNCHANGED <<env, retrying, cleaned, now, mode, result, pendentes, report, dispatches, everSent, starts>>

(* The process dies while it holds the lock (no catch, no finally runs) *)
Crash(p) ==
  /\ pc[p] \in {"fetch", "build", "dispatch", "record"}
  /\ pc' = [pc EXCEPT ![p] = "idle"]
  /\ mode' = [mode EXCEPT ![p] = "idle"]
  /\ inv' = [inv EXCEPT ![p] = NoInv]
  /\ result' = [result EXCEPT ![p] = NoResult]
  /\ options' = [options EXCEPT ![p] = NoOptions]
  /\ pendentes' = [pendentes EXCEPT ![p] = << >>]
  /\ report' = [report EXCEPT ![p] = NoReport]
  /\ cleaned' = [cleaned EXCEPT ![p] = 0]
  /\ UNCHANGED <<env, retrying, now, ctl, dispatches, everSent, starts>>

(* Time passes.  A tick is ten minutes and a handler call (store calls and *)
(* an outbound call bounded by httpTimeoutMs) fits within one, so the      *)
(* clock advances while no handler is running.                             *)
Tick ==
  /\ \A p \in Procs : pc[p] = "idle"
  /\ now < env.ticks * TickMinutes
  /\ now' = now + TickMinutes
  /\ UNCHANGED <<env, retrying, cleaned, ctl, pc, mode, inv, result, options, pendentes, report,
                 dispatches, everSent, starts>>

Next ==
  \/ \E p \in Procs, c \in Consultas : StartSend(p, c)
  \/ \E p \in Procs : SendCheck(p)
  \/ \E p \in Procs : SendLock(p)
  \/ \E p \in Procs : SendRecheck(p)
  \/ \E p \in Procs : SendFetch(p)
  \/ \E p \in Procs : SendNotFound(p)
  \/ \E p \in Procs : SendBuild(p)
  \/ \E p \in Procs : SendDispatch(p)
  \/ \E p \in Procs : SendRecord(p)
  \/ \E p \in Procs : SendCatch(p)
  \/ \E p \in Procs : SendFinally(p)
  \/ \E p \in Procs, opts \in ProcessOptions : StartBatch(p, opts)
  \/ \E p \in Procs : BatchCleanup(p)
  \/ \E p \in Procs : BatchFind(p)
  \/ \E p \in Procs, voucher \in Vouchers : StartRetry(p, voucher)
  \/ \E p \in Procs : RetryReset(p)
  \/ \E p \in Procs : Crash(p)
  \/ Tick

Spec == Init /\ [][Next]_vars

(* ------------------------ store failures -------------------------------- *)
(* A query of the control table raises (connection lost, timeout).  Each   *)
(* action below is the step of Next at the same position, taken when the   *)
(* store call of that step fails.                                          *)

(* canSendToSTT logs and rethrows: the raise lands in sendToSTT's catch *)
SendCheckRaises(p) ==
  /\ pc[p] = "check"
  /\ inv' = [inv EXCEPT ![p].error = "store failure"]
  /\ pc' = [pc EXCEPT ![p] = "catch"]
  /\ UNCHANGED <<env, retrying, cleaned, now, ctl, mode, result, options, pendentes, report,
                 dispatches, everSent, starts>>

(* acquireLock catches the failure of its upsert and returns false *)
SendLockFails(p) ==
  /\ pc[p] = "lock"
  /\ inv' = [inv EXCEPT ![p].lockAcquired = FALSE]
  /\ pc' = [pc EXCEPT ![p] = "recheck"]
  /\ UNCHANGED <<env, retrying, cleaned, now, ctl, mode, result, options, pendentes, report,
                 dispatches, everSent, starts>>

(* the second canSendToSTT rethrows *)
SendRecheckRaises(p) ==
  /\ pc[p] = "recheck"
  /\ inv' = [inv EXCEPT ![p].error = "store failure"]
  /\ pc' = [pc EXCEPT ![p] = "catch"]
  /\ UNCHANGED <<env, retrying, cleaned, now, ctl, mode, result, options, pendentes, report,
                 dispatches, everSent, starts>>

(* consulta not found, and releaseLock swallows the failure of its UPDATE *)
SendNotFoundReleaseFails(p) ==
  /\ pc[p] = "notfound"
  /\ inv' = [inv EXCEPT ![p].releases = inv[p].releases + 1,
                        ![p].ret = [success |-> FALSE, status |-> "ERROR",
                                    reason |-> [text |-> "Consulta nao encontrada",
                                                arg |-> NULL],
                                    httpStatus |-> NULL]]
  /\ pc' = [pc EXCEPT ![p] = "finally"]
  /\ UNCHANGED <<env, retrying, cleaned, now, ctl, mode, result, options, pendentes, report,
                 dispatches, everSent, starts>>

(* registrarErro without its own try/catch: the failure of its UPDATE      *)
(* leaves the catch block of sendToSTT and the handler ends with no result *)
SendCatchFails_Escapes(p) ==
  /\ pc[p] = "catch"
  /\ pc' = [pc EXCEPT ![p] = "idle"]
  /\ mode' = [mode EXCEPT ![p] = "idle"]
  /\ inv' = [inv EXCEPT ![p] = NoInv]
  /\ options' = [options EXCEPT ![p] = NoOptions]
  /\ pendentes' = [pendentes EXCEPT ![p] = << >>]
  /\ UNCHANGED <<env, retrying, cleaned, now, ctl, result, report, dispatches, everSent, starts>>

(* catch block: registrarErro swallows the failure of its UPDATE *)
SendCatchFails(p) ==
  /\ pc[p] = "catch"
  /\ inv' = [inv EXCEPT ![p].ret =
               [success |-> FALSE, status |-> "ERROR",
                reason |-> [text |-> inv[p].error, arg |-> NULL],
                httpStatus |-> NULL]]
  /\ pc' = [pc EXCEPT ![p] = "finally"]
  /\ UNCHANGED <<env, retrying, cleaned, now, ctl, mode, result, options, pendentes, report,
                 dispatches, everSent, starts>>

(* finally block: releaseLock swallows the failure of its UPDATE; the      *)
(* return reaches the caller as in SendFinally.                            *)
SendFinallyReleaseFails(p) ==
  /\ pc[p] = "finally"
  /\ LET ret == inv[p].ret
         rest == IF pendentes[p] = << >> THEN << >> ELSE Tail(pendentes[p])
     IN /\ result' = [result EXCEPT ![p] = ret]
        /\ IF mode[p] = "send"
           THEN UNCHANGED <<report, pendentes>>
           ELSE /\ report' = [report EXCEPT ![p] =
                                CountResult(report[p], Head(pendentes[p]), ret)]
                /\ pendentes' = [pendentes EXCEPT ![p] = rest]
        /\ IF rest = << >>
           THEN /\ pc' = [pc EXCEPT ![p] = "idle"]
                /\ mode' = [mode EXCEPT ![p] = "idle"]
                /\ inv' = [inv EXCEPT ![p] = NoInv]
                /\ options' = [options EXCEPT ![p] = NoOptions]
                /\ cleaned' = [cleaned EXCEPT ![p] = 0]
           ELSE /\ pc' = [pc EXCEPT ![p] = "check"]
                /\ inv' = [inv EXCEPT ![p] =
                             NewInv(rest[1].consulta_id, rest[1].voucher)]
                /\ UNCHANGED <<mode, options, cleaned>>
  /\ UNCHANGED <<env, retrying, now, ctl, dispatches, everSent, starts>>

(* The handlers of a living process with a store that may fail at any call *)
NextFault ==
  \/ \E p \in Procs, c \in Consultas : StartSend(p, c)
  \/ \E p \in Procs : SendCheck(p)
  \/ \E p \in Procs : SendLock(p)
  \/ \E p \in Procs : SendRecheck(p)
  \/ \E p \in Procs : SendFetch(p)
  \/ \E p \in Procs : SendNotFound(p)
  \/ \E p \in Procs : SendBuild(p)
  \/ \E p \in Procs : SendDispatch(p)
  \/ \E p \in Procs : SendRecord(p)
  \/ \E p \in Procs : SendCatch(p)
  \/ \E p \in Procs : SendFinally(p)
  \/ \E p \in Procs, opts \in ProcessOptions : StartBatch(p, opts)
  \/ \E p \in Procs : BatchCleanup(p)
  \/ \E p \in Procs : BatchFind(p)
  \/ \E p \in Procs, voucher \in Vouchers : StartRetry(p, voucher)
  \/ \E p \in Procs : RetryReset(p)
  \/ \E p \in Procs : SendCheckRaises(p)
  \/ \E p \in Procs : SendLockFails(p)
  \/ \E p \in Procs : SendRecheckRaises(p)
  \/ \E p \in Procs : SendNotFoundReleaseFails(p)
  \/ \E p \in Procs : SendCatchFails(p)
  \/ \E p \in Procs : SendFinallyReleaseFails(p)
  \/ Tick

FaultSpec == Init /\ [][NextFault]_vars

(* ------------------- the store calls on given rows ---------------------- *)
(* canSendToSTT, acquireLock and findPendingConsultas applied to the       *)
(* control rows the pipeline can leave behind, at the minute RowNow, under *)
(* the default and under a longer configured lock timeout.                 *)

(* enviado and resposta_status_code as left by the insert of acquireLock,  *)
(* by atualizarResultado (500, 200), by retryVoucher after a delivery, and *)
(* by registrarErro after a delivery                                       *)
RowOutcomes ==
  { [enviado |-> FALSE, status |-> NULL], [enviado |-> FALSE, status |-> 500],
    [enviado |-> FALSE, status |-> 200],  [enviado |-> TRUE,  status |-> 200],
    [enviado |-> TRUE,  status |-> NULL] }

(* Minutes since processando_desde was written *)
LockAges == {0, 3, 5, 7, 10, 12, 25}

RowLockTimes == {NULL} \cup {RowNow - a : a \in LockAges}

RowRetryTimes == {NULL, RowNow - 10, RowNow + 20}

(* What the writers of the table establish: tentativas = 0 only after the  *)
(* reset of retryVoucher (enviado false, no lock, no retry time); enviado  *)
(* with status 200 is written by atualizarResultado together with a null   *)
(* processando_desde, and acquireLock does not touch such a row; enviado   *)
(* with a null status only when registrarErro follows a delivery (second   *)
(* acquisition, retry time set), and a lock on such a row is a third       *)
(* acquisition; enviado false with status 200 only after the reset (no     *)
(* retry time).                                                            *)
WrittenRow(r) ==
  /\ r.tentativas = 0 =>
       (~r.enviado /\ r.processandoDesde = NULL /\ r.proximoRetry = NULL)
  /\ (r.enviado /\ r.respostaStatusCode = 200) => r.processandoDesde = NULL
  /\ (r.enviado /\ r.respostaStatusCode = NULL) =>
       /\ r.proximoRetry # NULL
       /\ r.tentativas >= (IF r.processandoDesde = NULL THEN 2 ELSE 3)
  /\ (~r.enviado /\ r.respostaStatusCode = 200) => r.proximoRetry = NULL

ControlRows(c) ==
  { r \in
      { [NoRow EXCEPT !.exists = TRUE, !.voucher = ConsultaRow(c).voucher,
                      !.enviado = o.enviado, !.respostaStatusCode = o.status,
                      !.dataEnvio = IF o.enviado THEN 0 ELSE NULL,
                      !.tentativas = n, !.processandoDesde = ps,
                      !.proximoRetry = pr] :
          o \in RowOutcomes, n \in 0..(MaxRetryTentativas + 1),
          ps \in RowLockTimes,
          pr \in RowRetryTimes } :
      WrittenRow(r) }

RowEnvironments ==
  { [consultas |-> Consultas, procs |-> {"p1"}, pdf |-> "PDF", starts |-> 1,
     ticks |-> 0, lockTimeoutMinutes |-> m, modoTeste |-> FALSE,
     second |-> {"send"}] :
      m \in {DefaultLockTimeoutMinutes, 2 * DefaultLockTimeoutMinutes} }

(* Every ProcessOptions value a trigger can pass to findPendingConsultas *)
AllOptions ==
  ProcessOptions \cup {[days |-> RetryDays, limit |-> RetryLimit, dryRun |-> FALSE]}

(* p1 is about to issue canSendToSTT or acquireLock for c1, or             *)
(* findPendingConsultas with one of the options of the triggers.           *)
InitRows ==
  /\ env \in RowEnvironments
  /\ now = RowNow
  /\ \E r1 \in ControlRows("c1") \cup {NoRow} :
     \E r2 \in {NoRow, [NoRow EXCEPT !.exists = TRUE, !.voucher = "V2",
                                     !.tentativas = 1]} :
       ctl = [c \in Consultas |-> IF c = "c1" THEN r1
                                  ELSE IF c = "c2" THEN r2 ELSE NoRow]
  /\ \E l \in {"check", "lock", "find", "cleanup"} :
       /\ pc = [p \in Procs |-> IF p = "p1" THEN l ELSE "idle"]
       /\ mode = [p \in Procs |-> IF p # "p1" THEN "idle"
                                  ELSE IF l \in {"find", "cleanup"} THEN "batch"
                                  ELSE "send"]
       /\ inv = [p \in Procs |-> IF p = "p1" /\ l \in {"check", "lock"}
                                 THEN NewInv("c1", "V1") ELSE NoInv]
       /\ \E opts \in (IF l \in {"find", "cleanup"} THEN AllOptions
                       ELSE {NoOptions}) :
            options = [p \in Procs |-> IF p = "p1" THEN opts ELSE NoOptions]
  /\ result = [p \in Procs |-> NoResult]
  /\ pendentes = [p \in Procs |-> << >>]
  /\ report = [p \in Procs |-> NoReport]
  /\ dispatches = [c \in Consultas |-> 0]
  /\ everSent = [c \in Consultas |-> ctl[c].enviado]
  /\ starts = 1
  /\ retrying = [p \in Procs |-> ""]
  /\ cleaned = [p \in Procs |-> 0]

NextRows ==
  \/ \E p \in Procs : SendCheck(p)
  \/ \E p \in Procs : SendLock(p)
  \/ \E p \in Procs : SendRecheck(p)
  \/ \E p \in Procs : BatchCleanup(p)
  \/ \E p \in Procs : BatchFind(p)

RowSpec == InitRows /\ [][NextRows]_vars

(* ======================= properties of the pipeline ==================== *)
(***************************************************************************)
(* Batch runs as the only trigger: two processes serve POST /process (the  *)
(* scheduler's call and a manual one, or two instances), so runs overlap.  *)
(***************************************************************************)

BatchEnvironments ==
  { [consultas |-> {"c1"}, procs |-> {"p1", "p2"}, pdf |-> "PDF",
     starts |-> MaxStarts + 1, ticks |-> MaxTicks - 3,
     lockTimeoutMinutes |-> DefaultLockTimeoutMinutes,
     modoTeste |-> FALSE, second |-> {"batch"}] }

InitBatch ==
  /\ env \in BatchEnvironments
  /\ now = 0
  /\ ctl = [c \in Consultas |-> NoRow]
  /\ pc = [p \in Procs |-> "idle"]
  /\ mode = [p \in Procs |-> "idle"]
  /\ inv = [p \in Procs |-> NoInv]
  /\ result = [p \in Procs |-> NoResult]
  /\ options = [p \in Procs |-> NoOptions]
  /\ pendentes = [p \in Procs |-> << >>]
  /\ report = [p \in Procs |-> NoReport]
  /\ dispatches = [c \in Consultas |-> 0]
  /\ everSent = [c \in Consultas |-> FALSE]
  /\ starts = 0
  /\ retrying = [p \in Procs |-> ""]
  /\ cleaned = [p \in Procs |-> 0]

NextBatch ==
  \/ \E p \in Procs, opts \in ProcessOptions : StartBatch(p, opts)
  \/ \E p \in Procs : BatchCleanup(p)
  \/ \E p \in Procs : BatchFind(p)
  \/ \E p \in Procs : SendCheck(p)
  \/ \E p \in Procs : SendLock(p)
  \/ \E p \in Procs : SendRecheck(p)
  \/ \E p \in Procs : SendFetch(p)
  \/ \E p \in Procs : SendNotFound(p)
  \/ \E p \in Procs : SendBuild(p)
  \/ \E p \in Procs : SendDispatch(p)
  \/ \E p \in Procs : SendRecord(p)
  \/ \E p \in Procs : SendCatch(p)
  \/ \E p \in Procs : SendFinally(p)

BatchSpec == InitBatch /\ [][NextBatch]_vars

(***************************************************************************)
(* Repeated batch runs with a store that answers and a process that stays  *)
(* alive: no query raises, the payload builds, every handler that has      *)
(* started runs to its return, and POST /process keeps being called on     *)
(* both processes.  The downstream system still answers as it likes, or    *)
(* not at all.                                                             *)
(***************************************************************************)

LiveEnvironments ==
  { [consultas |-> {"c1"}, procs |-> {"p1", "p2"}, pdf |-> "PDF",
     starts |-> MaxStarts, ticks |-> MaxTicks - 3,
     lockTimeoutMinutes |-> DefaultLockTimeoutMinutes,
     modoTeste |-> FALSE, second |-> {"batch"}] }

InitLive ==
  /\ env \in LiveEnvironments
  /\ now = 0
  /\ ctl = [c \in Consultas |-> NoRow]
  /\ pc = [p \in Procs |-> "idle"]
  /\ mode = [p \in Procs |-> "idle"]
  /\ inv = [p \in Procs |-> NoInv]
  /\ result = [p \in Procs |-> NoResult]
  /\ options = [p \in Procs |-> NoOptions]
  /\ pendentes = [p \in Procs |-> << >>]
  /\ report = [p \in Procs |-> NoReport]
  /\ dispatches = [c \in Consultas |-> 0]
  /\ everSent = [c \in Consultas |-> FALSE]
  /\ starts = 0
  /\ retrying = [p \in Procs |-> ""]
  /\ cleaned = [p \in Procs |-> 0]

(* The options of a live run over the whole retry window *)
LiveOptions == {opts \in ProcessOptions : ~opts.dryRun /\ opts.days = RetryDays}

(* POST /process: processarPendentes(options), called any number of times *)
LiveStartBatch(p, opts) ==
  /\ pc[p] = "idle"
  /\ p \in env.procs /\ "batch" \in Handlers(p)
  /\ pc' = [pc EXCEPT ![p] = "cleanup"]
  /\ mode' = [mode EXCEPT ![p] = "batch"]
  /\ options' = [options EXCEPT ![p] = opts]
  /\ result' = [result EXCEPT ![p] = NoResult]
  /\ inv' = [inv EXCEPT ![p] = NoInv]
  /\ UNCHANGED <<env, retrying, cleaned, now, ctl, pendentes, report,
                 dispatches, everSent, starts>>

(* sendToSTT step 4 when buildPayload returns *)
LiveBuild(p) == SendBuild(p) /\ pc'[p] = "dispatch"

(* sendToSTT step 6 when the UPDATE of atualizarResultado succeeds *)
LiveRecord(p) == SendRecord(p) /\ pc'[p] = "finally"

(* The next step of the handler that process p is running *)
LiveStep(p) ==
  \/ BatchCleanup(p)
  \/ BatchFind(p)
  \/ SendCheck(p)
  \/ SendLock(p)
  \/ SendRecheck(p)
  \/ SendFetch(p)
  \/ SendNotFound(p)
  \/ LiveBuild(p)
  \/ SendDispatch(p)
  \/ LiveRecord(p)
  \/ SendCatch(p)
  \/ SendFinally(p)

NextLive ==
  \/ \E p \in Procs, opts \in LiveOptions : LiveStartBatch(p, opts)
  \/ \E p \in Procs : LiveStep(p)

(* An async handler that has started is resumed by the event loop until it *)
(* returns, and the scheduler keeps calling POST /process: each process    *)
(* keeps taking the steps of its handler and keeps starting batch runs.    *)
LiveSpec ==
  /\ InitLive
  /\ [][NextLive]_vars
  /\ \A p \in Procs :
       /\ WF_vars(LiveStep(p))
       /\ WF_vars(\E opts \in LiveOptions : LiveStartBatch(p, opts))

(***************************************************************************)
(* The loop of processarPendentes over what sendToSTT hands back.  The     *)
(* orchestrator is taken as a dependency here: each call ends with one of  *)
(* the SendResult values or with a raised exception.                       *)
(***************************************************************************)

(* SendResult values sendToSTT returns *)
SendResults ==
  { [success |-> TRUE,  status |-> "SENT",        reason |-> NoReason,
     httpStatus |-> 200],
    [success |-> FALSE, status |-> "BLOCKED",     reason |-> NoReason,
     httpStatus |-> NULL],
    [success |-> FALSE, status |-> "LOCK_FAILED", reason |-> NoReason,
     httpStatus |-> NULL],
    [success |-> FALSE, status |-> "ERROR",       reason |-> NoReason,
     httpStatus |-> NULL] }

(* Lists findPendingConsultas can return over c1 and c2: most recently     *)
(* updated first, tentativas below the cap.                                *)
CandidateLists ==
  LET Rows(c) == { [consulta_id |-> c, voucher |-> ConsultaRow(c).voucher,
                    tentativas |-> n] : n \in 0..(MaxRetryTentativas - 1) }
  IN {<< >>} \cup { <<r>> : r \in Rows("c1") \cup Rows("c2") }
       \cup { <<r1, r2>> : r1 \in Rows("c1"), r2 \in Rows("c2") }

(* processarPendentes after findPendingConsultas returned: the report      *)
(* header is built and the loop is about to start.                         *)
InitLoop ==
  /\ env \in {e \in Environments : e.consultas = {"c1", "c2"}}
  /\ now = 0
  /\ ctl = [c \in Consultas |-> NoRow]
  /\ pc = [p \in Procs |-> IF p = "p1" THEN "loop" ELSE "idle"]
  /\ mode = [p \in Procs |-> IF p = "p1" THEN "batch" ELSE "idle"]
  /\ inv = [p \in Procs |-> NoInv]
  /\ result = [p \in Procs |-> NoResult]
  /\ \E opts \in {o \in ProcessOptions : ~o.dryRun} :
       options = [p \in Procs |-> IF p = "p1" THEN opts ELSE NoOptions]
  /\ \E found \in CandidateLists :
       /\ pendentes = [p \in Procs |-> IF p = "p1" THEN found ELSE << >>]
       /\ report = [p \in Procs |->
                      IF p = "p1" THEN [NoReport EXCEPT !.total = Len(found)]
                      ELSE NoReport]
  /\ dispatches = [c \in Consultas |-> 0]
  /\ everSent = [c \in Consultas |-> FALSE]
  /\ starts = 1
  /\ retrying = [p \in Procs |-> ""]
  /\ cleaned = [p \in Procs |-> 0]

(* the for-of over pendentes: the next candidate's sendToSTT call, or the  *)
(* return of the report when none is left                                  *)
LoopAdvance(p, rest) ==
  IF rest = << >>
  THEN /\ pc' = [pc EXCEPT ![p] = "idle"]
       /\ mode' = [mode EXCEPT ![p] = "idle"]
       /\ inv' = [inv EXCEPT ![p] = NoInv]
       /\ options' = [options EXCEPT ![p] = NoOptions]
  ELSE /\ pc' = [pc EXCEPT ![p] = "call"]
       /\ inv' = [inv EXCEPT ![p] = NewInv(rest[1].consulta_id, rest[1].voucher)]
       /\ UNCHANGED <<mode, options>>

(* processarPendentes: entry of the loop *)
LoopEnter(p) ==
  /\ pc[p] = "loop"
  /\ LoopAdvance(p, pendentes[p])
  /\ UNCHANGED <<env, retrying, cleaned, now, ctl, result, pendentes, report,
                 dispatches, everSent, starts>>

(* await sendToSTT(pendente.consulta_id, pendente.voucher): it returns a   *)
(* SendResult or raises                                                    *)
LoopCall(p) ==
  /\ pc[p] = "call"
  /\ \/ \E ret \in SendResults :
          /\ inv' = [inv EXCEPT ![p].ret = ret]
          /\ pc' = [pc EXCEPT ![p] = "count"]
     \/ /\ inv' = [inv EXCEPT ![p].error = "raised"]
        /\ pc' = [pc EXCEPT ![p] = "caught"]
  /\ UNCHANGED <<env, retrying, cleaned, now, ctl, mode, result, options,
                 pendentes, report, dispatches, everSent, starts>>

(* processarPendentes try block after the await: the counting *)
LoopCount(p) ==
  /\ pc[p] = "count"
  /\ report' = [report EXCEPT ![p] =
                  CountResult(report[p], Head(pendentes[p]), inv[p].ret)]
  /\ result' = [result EXCEPT ![p] = inv[p].ret]
  /\ pendentes' = [pendentes EXCEPT ![p] = Tail(pendentes[p])]
  /\ LoopAdvance(p, Tail(pendentes[p]))
  /\ UNCHANGED <<env, retrying, cleaned, now, ctl, dispatches, everSent, starts>>

(* processarPendentes catch block: the detail entry of a raised call *)
CountRaised(rep, pendente) ==
  [rep EXCEPT
     !.erros = @ + 1,
     !.detalhes = Append(@, [voucher |-> pendente.voucher, status |-> "ERROR",
                             tentativas |-> pendente.tentativas])]

(* a catch block that gives up on the rest of the list *)
LoopCatch_Aborts(p) ==
  /\ pc[p] = "caught"
  /\ report' = [report EXCEPT ![p] = CountRaised(report[p], Head(pendentes[p]))]
  /\ pendentes' = [pendentes EXCEPT ![p] = << >>]
  /\ LoopAdvance(p, << >>)
  /\ UNCHANGED <<env, retrying, cleaned, now, ctl, result, dispatches, everSent,
                 starts>>

(* processarPendentes catch block, then the next iteration *)
LoopCatch(p) ==
  /\ pc[p] = "caught"
  /\ report' = [report EXCEPT ![p] = CountRaised(report[p], Head(pendentes[p]))]
  /\ pendentes' = [pendentes EXCEPT ![p] = Tail(pendentes[p])]
  /\ LoopAdvance(p, Tail(pendentes[p]))
  /\ UNCHANGED <<env, retrying, cleaned, now, ctl, result, dispatches, everSent,
                 starts>>

NextLoop ==
  \/ \E p \in Procs : LoopEnter(p)
  \/ \E p \in Procs : LoopCall(p)
  \/ \E p \in Procs : LoopCount(p)
  \/ \E p \in Procs : LoopCatch(p)

LoopSpec == InitLoop /\ [][NextLoop]_vars

(***************************************************************************)
(* The payload builders.  buildPayload above keeps the two payload fields  *)
(* the pipeline's state depends on; here every field of STTPayload is      *)
(* computed, by buildPayload from the ConsultaCompleta that                *)
(* buscarDadosConsulta returns and by buildPayloadFromPrisma from the      *)
(* record that showPayload loads, both over the same stored rows.          *)
(***************************************************************************)

(* SQL NULL / JS null in a text column, and JS undefined *)
NullText == "(null)"
Undefined == "(undefined)"

(* JS: x || d *)
OrElse(x, d) == IF x \in {NullText, Undefined, ""} THEN d ELSE x

(* UTC offset of America/Sao_Paulo, in minutes *)
SaoPauloOffsetMinutes == 180

(* format(utcToZonedTime(t, 'America/Sao_Paulo'), "yyyy-MM-dd'T'HH:mm:ssXXX") *)
(* the civil time of the zone, as minutes                                  *)
FormatSaoPaulo(t) == t - SaoPauloOffsetMinutes

(* No row of evolucoes / agendamentos_stt for the consulta *)
NoEvolucao ==
  [exists |-> FALSE, status |-> NullText, tipoAtendimentoMedico |-> NullText,
   queixaDuracao |-> NullText, tipoQueixa |-> NullText,
   historiaProgressa |-> NullText, antecedentePessoal |-> FALSE,
   antecedentePessoalDetalhes |-> NullText,
   diagnosticoDetalhado |-> NullText, hipoteseDiagnostica |-> NullText,
   conduta |-> NullText, atestado |-> FALSE, prescricao |-> FALSE,
   solicitacaoExames |-> FALSE, desfecho |-> NullText, cids |-> << >>]

NoAgendamento == [exists |-> FALSE, codigoInterno |-> NullText]

(* Rows of evolucoes: the free-text columns share one value, the three     *)
(* issued-document flags another.                                          *)
EvolucaoRows ==
  {NoEvolucao} \cup
  { [exists |-> TRUE, status |-> s, tipoAtendimentoMedico |-> ta,
     queixaDuracao |-> x, tipoQueixa |-> x, historiaProgressa |-> x,
     antecedentePessoal |-> ap, antecedentePessoalDetalhes |-> apd,
     diagnosticoDetalhado |-> x, hipoteseDiagnostica |-> x, conduta |-> x,
     atestado |-> f, prescricao |-> f, solicitacaoExames |-> f,
     desfecho |-> x, cids |-> cs] :
      s \in {NullText, "Rascunho"}, ta \in {NullText, "PA"},
      x \in {NullText, "texto"}, ap \in BOOLEAN, apd \in {NullText, "asma"},
      f \in BOOLEAN,
      cs \in {<< >>, <<[codigo |-> "J45", descricao |-> "Asma",
                        principal |-> TRUE]>>} }

(* Stored rows of one consulta: its evolucao, its agendamentos_stt row,    *)
(* its consulta_tempos milestones and the professional's registration.     *)
SourceRecords ==
  { [evolucao |-> ev, agendamentoStt |-> ag,
     atendimentoIniciadoEm |-> ti, profissionalAcessouEm |-> ta,
     atendimentoFinalizadoEm |-> tf, registro |-> reg] :
      ev \in EvolucaoRows,
      ag \in {NoAgendamento, [exists |-> TRUE, codigoInterno |-> "K1"]},
      ti \in {NULL, 10}, ta \in {NULL, 5}, tf \in {NULL, 20},
      reg \in {NullText, "CRM1"} }

(* STTSendService.buscarDadosConsulta: the ConsultaCompleta built from the *)
(* joined row; evolucao and agendamentoStt are null when their first       *)
(* column is falsy.                                                        *)
buscarDadosConsulta(src) ==
  [evolucao |-> IF src.evolucao.exists /\ OrElse(src.evolucao.status, "") # ""
                THEN src.evolucao ELSE NoEvolucao,
   agendamentoStt |->
     IF src.agendamentoStt.exists
        /\ OrElse(src.agendamentoStt.codigoInterno, "") # ""
     THEN src.agendamentoStt ELSE NoAgendamento,
   consultaTempo |-> [atendimentoIniciadoEm |-> src.atendimentoIniciadoEm,
                      atendimentoFinalizadoEm |-> src.atendimentoFinalizadoEm,
                      profissionalAcessouEm |-> src.profissionalAcessouEm],
   profissional |-> [registro |-> src.registro]]

(* showPayload: consulta.findUnique with its includes *)
findUnique(src) ==
  [evolucao |-> src.evolucao,
   agendamentoStt |-> src.agendamentoStt,
   consultaTempo |-> [atendimentoIniciadoEm |-> src.atendimentoIniciadoEm,
                      atendimentoFinalizadoEm |-> src.atendimentoFinalizadoEm,
                      profissionalAcessouEm |-> src.profissionalAcessouEm],
   profissional |-> [registro |-> src.registro]]

(* JS: obj?.field for a text field *)
Opt(obj, field) == IF obj.exists THEN obj[field] ELSE Undefined

(* dataInicioAtendimento of both builders *)
DataInicio(tempo) ==
  IF tempo.atendimentoIniciadoEm # NULL
  THEN FormatSaoPaulo(tempo.atendimentoIniciadoEm)
  ELSE IF tempo.profissionalAcessouEm # NULL
  THEN FormatSaoPaulo(tempo.profissionalAcessouEm)
  ELSE NULL

(* dataFimAtendimento of both builders *)
DataFim(tempo, t) ==
  IF tempo.atendimentoFinalizadoEm # NULL
  THEN FormatSaoPaulo(tempo.atendimentoFinalizadoEm)
  ELSE FormatSaoPaulo(t)

(* The fields the two builders compute by the same expressions *)
CommonFields(consulta, pdfBase64, t) ==
  LET ev == consulta.evolucao IN
  [status |-> OrElse(Opt(ev, "status"), "Efetivo"),
   tipoAtendimentoMedico |-> OrElse(Opt(ev, "tipoAtendimentoMedico"), "OMV"),
   prioridade |-> "Normal",
   queixaDuracao |-> OrElse(Opt(ev, "queixaDuracao"), ""),
   tipoQueixa |-> OrElse(Opt(ev, "tipoQueixa"), ""),
   historiaPregressaMolestiaAtual |-> OrElse(Opt(ev, "historiaProgressa"), ""),
   antecedentesPessoais |->
     IF ev.exists /\ ev.antecedentePessoal
     THEN OrElse(ev.antecedentePessoalDetalhes, "Sim") ELSE "Nao",
   detalharDiagnostico |-> OrElse(Opt(ev, "diagnosticoDetalhado"), ""),
   hipoteseDiagnostica |-> OrElse(Opt(ev, "hipoteseDiagnostica"), ""),
   cids |-> IF ev.exists THEN ev.cids ELSE << >>,
   conduta |-> OrElse(Opt(ev, "conduta"), ""),
   atestado |-> ev.exists /\ ev.atestado,
   prescricao |-> ev.exists /\ ev.prescricao,
   solicitaoExames |-> ev.exists /\ ev.solicitacaoExames,
   desfecho |-> OrElse(Opt(ev, "desfecho"), ""),
   dataInicioAtendimento |-> DataInicio(consulta.consultaTempo),
   dataFimAtendimento |-> DataFim(consulta.consultaTempo, t),
   pdf |-> pdfBase64,
   crm |-> OrElse(consulta.profissional.registro, "")]

(* Adds the casoId field to a payload *)
WithCasoId(fields, casoId) ==
  [f \in DOMAIN fields \cup {"casoId"} |->
     IF f = "casoId" THEN casoId ELSE fields[f]]

(* buildPayload with the attendance end always the current time *)
buildPayloadComplete_EndIsNow(consulta, pdfBase64, t) ==
  [WithCasoId(CommonFields(consulta, pdfBase64, t),
              OrElse(Opt(consulta.agendamentoStt, "codigoInterno"), ""))
     EXCEPT !.dataFimAtendimento = FormatSaoPaulo(t)]

(* STTSendService.buildPayload, every field *)
buildPayloadComplete(consulta, pdfBase64, t) ==
  WithCasoId(CommonFields(consulta, pdfBase64, t),
             OrElse(Opt(consulta.agendamentoStt, "codigoInterno"), ""))

(* STTSendService.buildPayloadFromPrisma *)
buildPayloadFromPrisma(consulta, pdfBase64, t) ==
  WithCasoId(CommonFields(consulta, pdfBase64, t),
             Opt(consulta.agendamentoStt, "codigoInterno"))

(* One consulta with each stored content, the renderer working or not *)
PayloadEnvironments ==
  { [consultas |-> {"c1"}, procs |-> {"p1", "p2"}, pdf |-> pdf,
     starts |-> 2, ticks |-> 0,
     lockTimeoutMinutes |-> DefaultLockTimeoutMinutes,
     modoTeste |-> FALSE, second |-> {"send"}, record |-> src] :
      pdf \in {"PDF", ""}, src \in SourceRecords }

(* p1 is inside sendToSTT for c1, about to build the payload; p2 serves    *)
(* GET /payload/V1 and is about to load the record.                        *)
InitPayload ==
  /\ env \in PayloadEnvironments
  /\ now = RowNow
  /\ ctl = [c \in Consultas |->
              IF c = "c1"
              THEN [NoRow EXCEPT !.exists = TRUE, !.voucher = "V1",
                                 !.tentativas = 1, !.processandoDesde = RowNow]
              ELSE NoRow]
  /\ pc = [p \in Procs |-> IF p = "p1" THEN "build" ELSE "show"]
  /\ mode = [p \in Procs |-> IF p = "p1" THEN "send" ELSE "show"]
  /\ inv = [p \in Procs |->
              IF p = "p1" THEN [NewInv("c1", "V1") EXCEPT !.lockAcquired = TRUE]
              ELSE NewInv("c1", "V1")]
  /\ result = [p \in Procs |-> NoResult]
  /\ options = [p \in Procs |-> NoOptions]
  /\ pendentes = [p \in Procs |-> << >>]
  /\ report = [p \in Procs |-> NoReport]
  /\ dispatches = [c \in Consultas |-> 0]
  /\ everSent = [c \in Consultas |-> FALSE]
  /\ starts = 2
  /\ retrying = [p \in Procs |-> ""]
  /\ cleaned = [p \in Procs |-> 0]

(* sendToSTT step 4 with every payload field *)
PayloadBuild(p) ==
  /\ pc[p] = "build"
  /\ inv' = [inv EXCEPT ![p].payload =
               buildPayloadComplete(buscarDadosConsulta(env.record), env.pdf, now)]
  /\ pc' = [pc EXCEPT ![p] = "dispatch"]
  /\ UNCHANGED <<env, retrying, cleaned, now, ctl, mode, result, options,
                 pendentes, report, dispatches, everSent, starts>>

(* showPayload: findUnique, buildPayloadFromPrisma, the response *)
ShowPayload(p) ==
  /\ pc[p] = "show"
  /\ inv' = [inv EXCEPT ![p].payload =
               buildPayloadFromPrisma(findUnique(env.record), env.pdf, now)]
  /\ pc' = [pc EXCEPT ![p] = "idle"]
  /\ mode' = [mode EXCEPT ![p] = "idle"]
  /\ UNCHANGED <<env, retrying, cleaned, now, ctl, result, options, pendentes,
                 report, dispatches, everSent, starts>>

NextPayload ==
  \/ \E p \in Procs : PayloadBuild(p)
  \/ \E p \in Procs : ShowPayload(p)

PayloadSpec == InitPayload /\ [][NextPayload]_vars

Delivered200(c) ==
  ctl[c].exists /\ ctl[c].enviado /\ ctl[c].respostaStatusCode = 200

HoldsLock(p) == pc[p] \in {"fetch", "build", "dispatch", "record"}

(* A step taken by process p *)
Moves(p) == pc'[p] # pc[p] \/ inv'[p] # inv[p]

(* C1: of the concurrent sendToSTT invocations for one record, all answered *)
(* 200 by the downstream system, at most one reaches DISPATCH and is about  *)
(* to write enviado = true with status 200.                                 *)
C1_AtMostOneSuccess ==
  \A p, q \in Procs :
    (p # q /\ pc[p] = "record" /\ pc[q] = "record"
       /\ inv[p].consultaId = inv[q].consultaId)
    => ~(inv[p].response.status = 200 /\ inv[q].response.status = 200)

(* C2: an acquireLock on a row that is not delivered and whose             *)
(* processando_desde was set less than the lock timeout ago (by the        *)
(* previous acquireLock, nothing written since) returns false and affects  *)
(* zero rows: tentativas and processando_desde stay as they were.          *)
C2_SecondAcquireFails ==
  [][\A p \in Procs :
       LET c == inv[p].consultaId IN
       (pc[p] = "lock" /\ pc'[p] # "lock"
          /\ ctl[c].exists /\ ~ctl[c].enviado /\ EmProcessamento(ctl[c], now))
       => (pc'[p] = "recheck" /\ ctl'[c] = ctl[c])]_vars

(* C3: where one handler runs at a time (so that every later dispatch      *)
(* belongs to a later operation), once a row has held enviado = true with  *)
(* status 200 no batch run, sendToSTT call or retry-voucher request        *)
(* dispatches that record again.                                           *)
C3_NoRedispatchAfterSuccess ==
  [][\A c \in Consultas :
       (Cardinality(env.procs) = 1 /\ everSent[c])
       => dispatches'[c] = dispatches[c]]_vars

(* C4: for a row with enviado = true and status 200, whatever its other    *)
(* fields, findPendingConsultas does not return the record, canSendToSTT   *)
(* answers canSend = false, and a sendToSTT whose check reads that row     *)
(* returns success = false with status BLOCKED.                            *)
C4_NoResendAfterSuccess ==
  /\ [](\A c \in Consultas :
          Delivered200(c) =>
            /\ ~canSendToSTT(ctl[c], now).canSend
            /\ \A opts \in AllOptions :
                 LET found == findPendingConsultas(env.consultas, ctl, opts, now)
                 IN \A i \in 1..Len(found) : found[i].consulta_id # c)
  /\ [][\A p \in Procs :
          (pc[p] = "check" /\ pc'[p] # "check" /\ Delivered200(inv[p].consultaId))
          => /\ pc'[p] = "finally"
             /\ inv'[p].ret.status = "BLOCKED"
             /\ ~inv'[p].ret.success]_vars

C4_Witness ==
  \E p \in Procs :
    /\ pc[p] = "idle"
    /\ result[p].status = "BLOCKED"
    /\ result[p].reason.text = "Ja enviado com sucesso em"
    /\ Delivered200("c1")
    /\ ctl["c1"].proximoRetry # NULL
    /\ ctl["c1"].tentativas = 2

(* C5: an invocation that canSendToSTT disallowed returns BLOCKED without  *)
(* writing the control row: its last step leaves the table as it was, so a *)
(* processando_desde set by the worker that holds the lock is still set.   *)
C5_BlockedWritesNothing ==
  [][\A p \in Procs :
       (pc[p] = "finally" /\ inv[p].ret.status = "BLOCKED" /\ pc'[p] # "finally")
       => ctl' = ctl]_vars

(* The fields of a control row that C6 speaks of *)
GuardedFields(row) ==
  <<row.processandoDesde, row.enviado, row.proximoRetry, row.dataEnvio,
    row.respostaStatusCode, row.respostaBody, row.respostaHeaders,
    row.respostaErro>>

(* C6: while an invocation that acquired the lock is between LOCK and      *)
(* RECORD, a step of another process that is neither an acquireLock, nor   *)
(* the cleanup sweep, nor the outcome write of an invocation that acquired *)
(* the lock, leaves processando_desde, enviado, proximo_retry and the      *)
(* response fields of that row unchanged.                                  *)
C6_OnlyLockHolderWrites ==
  [][\A p, q \in Procs :
       LET c == inv[p].consultaId IN
       (p # q /\ HoldsLock(p) /\ inv[p].lockAcquired /\ Moves(q)
          /\ pc[q] \notin {"lock", "cleanup", "record", "catch"})
       => GuardedFields(ctl'[c]) = GuardedFields(ctl[c])]_vars

(* C7: the step on which a sendToSTT invocation returns, whatever its      *)
(* result tag and whichever of FETCH, BUILD, DISPATCH or RECORD failed,    *)
(* leaves processando_desde of its record null.                            *)
C7_LockReleasedOnReturn ==
  [][\A p \in Procs :
       (pc[p] = "finally" /\ pc'[p] # "finally")
       => /\ ctl'[inv[p].consultaId].processandoDesde = NULL
          /\ result'[p] = inv[p].ret
          /\ result'[p].status \in {"SENT", "BLOCKED", "LOCK_FAILED", "ERROR"}]_vars

C7_Witness ==
  \E p \in Procs :
    /\ pc[p] = "idle"
    /\ result[p].status = "ERROR"
    /\ result[p].reason.text = "timeout"
    /\ ctl["c1"].exists
    /\ ctl["c1"].tentativas = 1
    /\ ctl["c1"].processandoDesde = NULL
    /\ \A q \in Procs : pc[q] = "idle"

(* C8: an invocation that acquired the lock runs releaseLock exactly once: *)
(* when it reaches the release of its finally block it has not released    *)
(* before.                                                                 *)
C8_ReleaseExactlyOnce ==
  \A p \in Procs :
    (pc[p] = "finally" /\ inv[p].lockAcquired) => inv[p].releases = 0

(* C9: a sendToSTT result is SENT with success = true only when the        *)
(* dispatch returned status 200.                                           *)
C9_SentOnlyOn200 ==
  \A p \in Procs :
    (result[p].status = "SENT" \/ result[p].success) => result[p].httpStatus = 200

(* C10: every response the dispatcher receives is returned to RECORD, not  *)
(* raised, and RECORD writes enviado = (status = 200), data_envio only on  *)
(* 200, the response status, body and headers, the payload, and            *)
(* processando_desde = NULL.                                               *)
C10_RecordWritesOutcome ==
  [][\A p \in Procs :
       LET c == inv[p].consultaId
           r == inv[p].response
       IN /\ (pc[p] = "dispatch" /\ inv'[p].response # NoResponse)
               => pc'[p] = "record"
          /\ (pc[p] = "record" /\ pc'[p] = "finally")
               => /\ ctl'[c].enviado = (r.status = 200)
                  /\ ctl'[c].dataEnvio = (IF r.status = 200 THEN now ELSE NULL)
                  /\ ctl'[c].respostaStatusCode = r.status
                  /\ ctl'[c].respostaBody = r.data
                  /\ ctl'[c].respostaHeaders = r.headers
                  /\ ctl'[c].payloadEnviado = inv[p].payload
                  /\ ctl'[c].processandoDesde = NULL
                  /\ ctl'[c].tentativas = ctl[c].tentativas]_vars

C10_Witness ==
  /\ ctl["c1"].exists
  /\ ~ctl["c1"].enviado
  /\ ctl["c1"].respostaStatusCode = 201
  /\ ctl["c1"].respostaBody = "created"
  /\ ctl["c1"].dataEnvio = NULL
  /\ ctl["c1"].payloadEnviado = buildPayload("c1", "PDF")
  /\ ctl["c1"].processandoDesde = NULL
  /\ \E p \in Procs : pc[p] = "finally" /\ inv[p].response.status = 201

(* C11: when the dispatch received a response that is not 2xx, the outcome *)
(* write leaves proximo_retry = now + 30 minutes, so that                  *)
(* findPendingConsultas does not return the record before that time.       *)
C11_Non2xxSchedulesRetry ==
  [][\A p \in Procs :
       LET c == inv[p].consultaId IN
       (pc[p] = "record" /\ pc'[p] = "finally"
          /\ ~(inv[p].response.status >= 200 /\ inv[p].response.status < 300))
       => ctl'[c].proximoRetry = now + RetryMinutes]_vars

SendRank(l) ==
  CASE l = "check" -> 1
    [] l = "lock" -> 2
    [] l = "recheck" -> 3
    [] l = "fetch" -> 3
    [] l = "notfound" -> 4
    [] l = "build" -> 4
    [] l = "dispatch" -> 5
    [] l = "record" -> 6
    [] l = "catch" -> 7
    [] l = "finally" -> 8
    [] OTHER -> 0

ResultTags == {"SENT", "BLOCKED", "LOCK_FAILED", "ERROR"}

(* C13: with any combination of failures in canSendToSTT, acquireLock, the *)
(* record fetch, the payload build, the dispatch, the outcome write, the   *)
(* error write and releaseLock, a sendToSTT invocation always has a next   *)
(* step, every step moves it forward in the pipeline, and the only step    *)
(* that leaves the invocation is the return after the finally block, which *)
(* hands the caller a result tagged SENT, BLOCKED, LOCK_FAILED or ERROR.   *)
C13_NothingEscapes ==
  /\ [](\A p \in Procs :
          SendRank(pc[p]) > 0 =>
            ENABLED (\/ SendCheck(p) \/ SendLock(p) \/ SendRecheck(p)
                     \/ SendFetch(p) \/ SendNotFound(p) \/ SendBuild(p)
                     \/ SendDispatch(p) \/ SendRecord(p) \/ SendCatch(p)
                     \/ SendFinally(p)))
  /\ [][\A p \in Procs :
          (SendRank(pc[p]) > 0 /\ Moves(p))
          => \/ SendRank(pc'[p]) > SendRank(pc[p])
             \/ /\ pc[p] = "finally"
                /\ result'[p] = inv[p].ret
                /\ result'[p].status \in ResultTags]_vars

C13_Witness ==
  \E p \in Procs :
    /\ pc[p] = "idle"
    /\ result[p].status = "ERROR"
    /\ result[p].reason.text = "timeout"
    /\ ctl["c1"].exists
    /\ ctl["c1"].respostaErro = ""
    /\ ctl["c1"].proximoRetry = NULL
    /\ ctl["c1"].processandoDesde # NULL

(* C14: tentativas of a control row never decreases, whatever operation    *)
(* runs (acquireLock, outcome write, error write, releaseLock,             *)
(* cleanupStuckLocks, batch runs, retry-voucher).                          *)
C14_TentativasNeverDecreases ==
  [][\A c \in Consultas : ctl'[c].tentativas >= ctl[c].tentativas]_vars

(* C15: an acquireLock that returns true sets tentativas to 1 on a new row *)
(* and to its previous value + 1 on an existing row, and no other step of  *)
(* a sendToSTT invocation (check, fetch, build, dispatch, outcome write,   *)
(* error write, release) changes tentativas of any row.                    *)
C15_OneAttemptPerAcquire ==
  [][\A p \in Procs :
       LET c == inv[p].consultaId IN
       /\ (pc[p] = "lock" /\ pc'[p] = "fetch")
            => ctl'[c].tentativas =
                 (IF ctl[c].exists THEN ctl[c].tentativas + 1 ELSE 1)
       /\ (SendRank(pc[p]) > 0 /\ pc[p] # "lock" /\ Moves(p))
            => \A d \in Consultas : ctl'[d].tentativas = ctl[d].tentativas]_vars

C15_Witness ==
  \E p \in Procs :
    /\ pc[p] = "idle"
    /\ result[p].status = "SENT"
    /\ result[p].httpStatus = 200
    /\ ctl["c1"].respostaStatusCode = 200
    /\ ctl["c1"].tentativas = 2
    /\ dispatches["c1"] = 1

(* C16: an acquireLock on a row with enviado = true and status 200 returns *)
(* false and leaves the row as it was; on an existing row that is not      *)
(* delivered with status 200 it writes processando_desde = NOW() only if   *)
(* processando_desde was null or older than the lock timeout, and          *)
(* otherwise keeps the value the row had.                                  *)
C16_AcquireOnExistingRow ==
  [][\A p \in Procs :
       LET c == inv[p].consultaId
           row == ctl[c]
       IN (pc[p] = "lock" /\ pc'[p] # "lock" /\ row.exists)
          => /\ EnviadoComSucesso(row)
                  => (pc'[p] = "recheck" /\ ctl'[c] = row)
             /\ (/\ ~EnviadoComSucesso(row)
                 /\ row.processandoDesde # NULL
                 /\ ~(row.processandoDesde < now - LockTimeoutMinutes))
                  => ctl'[c].processandoDesde = row.processandoDesde]_vars

(* C17: the first and only handler call is a sendToSTT for a record with   *)
(* no control row and the downstream answers 200: the call returns         *)
(* success = true, status SENT, httpStatus 200, and the table then holds   *)
(* one row, for that record, with enviado = true, status 200, tentativas = *)
(* 1 and processando_desde null.  (The table is keyed by consulta_id, the  *)
(* conflict target of the upsert, so it never holds two rows of a record.) *)
C17_FirstSendDelivers ==
  [][\A p \in Procs :
       LET c == inv[p].consultaId IN
       (/\ pc[p] = "finally" /\ pc'[p] # "finally"
        /\ mode[p] = "send" /\ starts = 1
        /\ inv[p].response.status = 200 /\ inv[p].error = "")
       => /\ result'[p] = [success |-> TRUE, status |-> "SENT",
                           reason |-> NoReason, httpStatus |-> 200]
          /\ ctl'[c].exists /\ ctl'[c].enviado
          /\ ctl'[c].respostaStatusCode = 200
          /\ ctl'[c].tentativas = 1
          /\ ctl'[c].processandoDesde = NULL
          /\ \A d \in Consultas \ {c} : ~ctl'[d].exists]_vars

C17_Witness ==
  \E p \in Procs :
    /\ starts = 1
    /\ pc[p] = "idle"
    /\ result[p].status = "SENT" /\ result[p].success
    /\ result[p].httpStatus = 200
    /\ ctl["c1"].exists /\ ctl["c1"].enviado
    /\ ctl["c1"].tentativas = 1
    /\ ctl["c1"].processandoDesde = NULL
    /\ dispatches["c1"] = 1
    /\ ~ctl["c2"].exists

(* C18: canSendToSTT answers canSend = false exactly when the row has      *)
(* enviado = true with status 200, or has processando_desde set less than  *)
(* the configured lock timeout ago; with no row, a failed row or a lock as *)
(* old as the timeout or older it answers true; it never writes the table. *)
C18_CanSendDecision ==
  [][\A p \in Procs :
       LET row == ctl[inv[p].consultaId]
           delivered == row.exists /\ row.enviado /\ row.respostaStatusCode = 200
           locked == /\ row.exists /\ row.processandoDesde # NULL
                     /\ now - row.processandoDesde < env.lockTimeoutMinutes
       IN /\ (pc[p] = "check" /\ pc'[p] # "check")
               => /\ (delivered \/ locked)
                       <=> (pc'[p] = "finally" /\ inv'[p].ret.status = "BLOCKED")
                  /\ ~(delivered \/ locked) <=> pc'[p] = "lock"
                  /\ ctl' = ctl
          /\ (pc[p] = "recheck" /\ pc'[p] # "recheck") => ctl' = ctl]_vars

C18_Witness ==
  /\ env.lockTimeoutMinutes = 2 * DefaultLockTimeoutMinutes
  /\ pc["p1"] = "finally"
  /\ inv["p1"].ret.status = "BLOCKED"
  /\ inv["p1"].ret.reason = [text |-> "Em processamento ha", arg |-> 7 * 60]
  /\ ~ctl["c1"].enviado
  /\ ctl["c1"].processandoDesde = now - 7

(* The records C19 says findPendingConsultas selects *)
C19_Eligible(c, days) ==
  LET src == ConsultaRow(c)
      row == ctl[c]
  IN /\ src.status = "finalizada"
     /\ src.evolucao
     /\ src.updatedAt >= now - days * MinutesPerDay
     /\ \/ ~row.exists
        \/ /\ ~row.enviado
           /\ row.tentativas < 3
           /\ (row.proximoRetry = NULL \/ row.proximoRetry <= now)
           /\ \/ row.processandoDesde = NULL
              \/ now - row.processandoDesde > env.lockTimeoutMinutes

(* C19: the candidate query returns a record if and only if it is          *)
(* finalized, has an evolucao, was updated within the given days and is    *)
(* retry-eligible (no control row, or enviado false, tentativas < 3,       *)
(* proximo_retry null or due, processando_desde null or older than the     *)
(* configured lock timeout), most recently updated first, capped at limit. *)
C19_FindPending ==
  [][\A p \in Procs :
       (pc[p] = "find" /\ pc'[p] # "find")
       => LET opts == options[p]
              E == {c \in env.consultas : C19_Eligible(c, opts.days)}
              n == IF Cardinality(E) < opts.limit THEN Cardinality(E) ELSE opts.limit
              got == IF opts.dryRun
                     THEN [i \in 1..Len(report'[p].detalhes) |->
                             report'[p].detalhes[i].voucher]
                     ELSE [i \in 1..Len(pendentes'[p]) |-> pendentes'[p][i].voucher]
              R == {c \in env.consultas :
                      \E i \in 1..Len(got) : got[i] = ConsultaRow(c).voucher}
          IN /\ report'[p].total = n
             /\ Len(got) = n
             /\ R \subseteq E
             /\ Cardinality(R) = n
             /\ \A i, j \in 1..Len(got) :
                  i < j => \E c, d \in R :
                             /\ got[i] = ConsultaRow(c).voucher
                             /\ got[j] = ConsultaRow(d).voucher
                             /\ ConsultaRow(c).updatedAt >= ConsultaRow(d).updatedAt
             /\ \A c \in R, d \in E \ R :
                  ConsultaRow(c).updatedAt >= ConsultaRow(d).updatedAt]_vars

(* A control row at the retry cap *)
C20_Capped(c) ==
  ctl[c].exists /\ ~ctl[c].enviado /\ ctl[c].tentativas >= 3

(* C20: a record whose row has tentativas >= 3 and enviado = false is not  *)
(* returned by findPendingConsultas, whatever its proximo_retry and        *)
(* processando_desde and whatever the options, so the loop of a batch run  *)
(* never receives it as a candidate.                                       *)
C20_RetryCap ==
  /\ [](\A c \in Consultas, opts \in AllOptions :
          C20_Capped(c) =>
            LET found == findPendingConsultas(env.consultas, ctl, opts, now)
            IN \A i \in 1..Len(found) : found[i].consulta_id # c)
  /\ [][\A p \in Procs :
          (pc[p] = "find" /\ pc'[p] # "find")
          => /\ \A i \in 1..Len(pendentes'[p]) :
                  ~C20_Capped(pendentes'[p][i].consulta_id)
             /\ \A c \in Consultas :
                  C20_Capped(c) =>
                    /\ inv'[p].consultaId # c
                    /\ \A i \in 1..Len(report'[p].detalhes) :
                         report'[p].detalhes[i].voucher # ConsultaRow(c).voucher]_vars

C20_Witness ==
  /\ pc["p1"] = "idle" /\ mode["p1"] = "idle"
  /\ report["p1"].total = 1
  /\ report["p1"].detalhes = <<[voucher |-> "V2", status |-> "DRY_RUN",
                                tentativas |-> 0]>>
  /\ ctl["c1"].exists /\ ~ctl["c1"].enviado
  /\ ctl["c1"].tentativas = 3
  /\ ctl["c1"].proximoRetry = NULL
  /\ ctl["c1"].processandoDesde = NULL
  /\ ~ctl["c2"].exists

(* C22: a processarPendentes with dryRun = true leaves every control row   *)
(* as it was, processando_desde of rows holding old locks included, and    *)
(* issues no outbound call: no step of the run changes the table or the    *)
(* count of dispatches.                                                    *)
C22_DryRunWritesNothing ==
  [][\A p \in Procs :
       (mode[p] = "batch" /\ options[p].dryRun /\ Moves(p))
       => (ctl' = ctl /\ dispatches' = dispatches)]_vars

(* C23: in a dry run the loop never calls sendToSTT (the run goes from the *)
(* candidate query straight to its return, without a canSendToSTT,         *)
(* acquireLock, dispatch or releaseLock), total is the number of           *)
(* candidates, every detail entry is tagged DRY_RUN and carries the        *)
(* tentativas of the candidate's row, and processados, sucesso, bloqueados *)
(* and erros are 0.                                                        *)
C23_DryRunReport ==
  /\ [](\A p \in Procs : SendRank(pc[p]) > 0 => ~options[p].dryRun)
  /\ [][\A p \in Procs :
          (pc[p] = "find" /\ pc'[p] # "find" /\ options[p].dryRun)
          => LET found == findPendingConsultas(env.consultas, ctl, options[p], now)
                 rep == report'[p]
             IN /\ pc'[p] = "idle"
                /\ ctl' = ctl /\ dispatches' = dispatches
                /\ rep.total = Len(found)
                /\ Len(rep.detalhes) = Len(found)
                /\ \A i \in 1..Len(found) :
                     /\ rep.detalhes[i].status = "DRY_RUN"
                     /\ rep.detalhes[i].voucher = found[i].voucher
                     /\ rep.detalhes[i].tentativas =
                          (IF ctl[found[i].consulta_id].exists
                           THEN ctl[found[i].consulta_id].tentativas ELSE 0)
                /\ rep.processados = 0 /\ rep.sucesso = 0
                /\ rep.bloqueados = 0 /\ rep.erros = 0]_vars

C23_Witness ==
  /\ pc["p1"] = "idle"
  /\ report["p1"].total = 1
  /\ report["p1"].processados = 0
  /\ report["p1"].detalhes =
       <<[voucher |-> "V1", status |-> "DRY_RUN", tentativas |-> 1]>>
  /\ ctl["c1"].tentativas = 1
  /\ ~ctl["c1"].enviado
  /\ dispatches["c1"] = 1

(* C25: the reset step of retryVoucher writes, on the row of the consulta  *)
(* with the given voucher, enviado = false, processando_desde = null,      *)
(* proximo_retry = null and tentativas = max(tentativas - 1, 0), keeps its *)
(* other fields, and leaves every other row as it was; where the consulta  *)
(* has no row the step creates none.                                       *)
C25_RetryResetRow ==
  [][\A p \in Procs :
       LET c == inv[p].consultaId
           row == ctl[c]
       IN (pc[p] = "reset" /\ pc'[p] # "reset")
          => /\ ConsultaRow(c).voucher = inv[p].voucher
             /\ \A d \in Consultas \ {c} : ctl'[d] = ctl[d]
             /\ ~row.exists => ctl'[c] = row
             /\ row.exists =>
                  /\ ctl'[c].exists
                  /\ ~ctl'[c].enviado
                  /\ ctl'[c].processandoDesde = NULL
                  /\ ctl'[c].proximoRetry = NULL
                  /\ ctl'[c].tentativas =
                       (IF row.tentativas >= 1 THEN row.tentativas - 1 ELSE 0)
                  /\ ctl'[c].respostaStatusCode = row.respostaStatusCode
                  /\ ctl'[c].dataEnvio = row.dataEnvio
                  /\ ctl'[c].respostaErro = row.respostaErro
                  /\ ctl'[c].payloadEnviado = row.payloadEnviado]_vars

C25_Witness ==
  /\ pc["p1"] = "cleanup" /\ mode["p1"] = "retry"
  /\ ctl["c1"].exists
  /\ ~ctl["c1"].enviado
  /\ ctl["c1"].tentativas = 1
  /\ ctl["c1"].proximoRetry = NULL
  /\ ctl["c1"].processandoDesde = NULL
  /\ ctl["c1"].respostaErro = "timeout"
  /\ dispatches["c1"] = 2

(* C24: a retryVoucher request for voucher V calls sendToSTT for the       *)
(* consulta with voucher V and for no other: no step of the request        *)
(* starts an invocation for another consulta, changes the control row of   *)
(* another consulta, or dispatches another consulta.                       *)
C24_RetryOnlyItsVoucher ==
  [][\A p \in Procs :
       (mode[p] = "retry" /\ Moves(p))
       => /\ inv'[p].consultaId # ""
               => ConsultaRow(inv'[p].consultaId).voucher = retrying[p]
          /\ \A c \in Consultas :
               ConsultaRow(c).voucher # retrying[p]
               => (ctl'[c] = ctl[c] /\ dispatches'[c] = dispatches[c])]_vars

(* C30: under modoTeste no invocation posts anything (the dispatch count   *)
(* of every record stays zero); the dispatch step of every invocation that *)
(* reaches it yields the made-up response with status 200, the record step *)
(* that follows writes it as for a received response (enviado = true,      *)
(* status 200) and the invocation returns SENT.                            *)
C30_TestModeNoTransport ==
  /\ [](env.modoTeste => \A c \in Consultas : dispatches[c] = 0)
  /\ [][env.modoTeste =>
        \A p \in Procs :
          LET c == inv[p].consultaId IN
          /\ (pc[p] = "dispatch" /\ pc'[p] \notin {"dispatch", "idle"})
               => /\ pc'[p] = "record"
                  /\ inv'[p].response = SimulatedResponse
                  /\ inv'[p].error = ""
          /\ (pc[p] = "record" /\ pc'[p] = "finally")
               => /\ ctl'[c].enviado
                  /\ ctl'[c].respostaStatusCode = 200
                  /\ ctl'[c].processandoDesde = NULL
                  /\ inv'[p].ret.success /\ inv'[p].ret.status = "SENT"
          /\ (pc[p] = "finally" /\ pc'[p] # "finally"
              /\ inv[p].response.status = 200 /\ inv[p].error = "")
               => /\ result'[p].success /\ result'[p].status = "SENT"
                  /\ result'[p].httpStatus = 200
                  /\ EnviadoComSucesso(ctl'[c])]_vars

C30_Witness ==
  /\ env.modoTeste
  /\ pc["p1"] = "idle"
  /\ result["p1"].success /\ result["p1"].status = "SENT"
  /\ result["p1"].httpStatus = 200
  /\ ctl["c1"].exists /\ ctl["c1"].enviado
  /\ ctl["c1"].respostaStatusCode = 200
  /\ ctl["c1"].tentativas = 1
  /\ dispatches["c1"] = 0

(* Number of detail entries with a status in tags *)
Tagged(detalhes, tags) ==
  Cardinality({i \in 1..Len(detalhes) : detalhes[i].status \in tags})

(* C27: when a live batch run returns, its report has sucesso = number of  *)
(* candidates with result SENT, bloqueados = number with BLOCKED or        *)
(* LOCK_FAILED, erros = number with ERROR, processados = sucesso +         *)
(* bloqueados + erros, and processados = total = number of candidates, one *)
(* detail entry each.                                                      *)
C27_ReportCounts ==
  [][\A p \in Procs :
       (/\ mode[p] \in {"batch", "retry"} /\ mode'[p] = "idle"
        /\ pc[p] \in {"find", "finally"}
        /\ ~options[p].dryRun)
       => LET rep == report'[p] IN
          /\ rep.sucesso = Tagged(rep.detalhes, {"SENT"})
          /\ rep.bloqueados = Tagged(rep.detalhes, {"BLOCKED", "LOCK_FAILED"})
          /\ rep.erros = Tagged(rep.detalhes, {"ERROR"})
          /\ rep.processados = rep.sucesso + rep.bloqueados + rep.erros
          /\ rep.processados = rep.total
          /\ rep.total = Len(rep.detalhes)
          /\ pc[p] = "find"
               => rep.total = 0
          /\ pc[p] = "finally"
               => /\ rep.total = Len(report[p].detalhes) + Len(pendentes[p])
                  /\ Len(pendentes[p]) = 1]_vars

C27_Witness ==
  \E p \in Procs :
    /\ pc[p] = "idle"
    /\ report[p].total = 2 /\ report[p].processados = 2
    /\ report[p].sucesso = 1 /\ report[p].erros = 1
    /\ report[p].bloqueados = 0
    /\ Len(report[p].detalhes) = 2
    /\ report[p].detalhes[1].status = "SENT"
    /\ report[p].detalhes[2].status = "ERROR"

(* C28: for a row with enviado = false whose processando_desde is older    *)
(* than twice the lock timeout, cleanupStuckLocks sets processando_desde   *)
(* to null and counts the row in its result (the result is the number of   *)
(* such rows); an acquireLock on a row with enviado = false and no         *)
(* processando_desde, as the cleanup leaves it, returns true.              *)
C28_LockSelfHealing ==
  [][\A p \in Procs :
       /\ (pc[p] = "cleanup" /\ pc'[p] = "find")
          => /\ \A c \in Consultas :
                  (/\ ctl[c].exists /\ ~ctl[c].enviado
                   /\ ctl[c].processandoDesde # NULL
                   /\ now - ctl[c].processandoDesde > 2 * LockTimeoutMinutes)
                  => /\ ctl'[c].processandoDesde = NULL
                     /\ ~ctl'[c].enviado
                     /\ cleaned'[p] >= 1
             /\ cleaned'[p] =
                  Cardinality({c \in Consultas :
                     /\ ctl[c].exists /\ ~ctl[c].enviado
                     /\ ctl[c].processandoDesde # NULL
                     /\ now - ctl[c].processandoDesde > 2 * LockTimeoutMinutes})
       /\ (/\ pc[p] = "lock" /\ pc'[p] # "lock"
           /\ ctl[inv[p].consultaId].exists
           /\ ~ctl[inv[p].consultaId].enviado
           /\ ctl[inv[p].consultaId].processandoDesde = NULL)
          => /\ inv'[p].lockAcquired
             /\ ctl'[inv[p].consultaId].processandoDesde = now]_vars

C28_Witness ==
  /\ pc["p1"] = "find"
  /\ cleaned["p1"] = 1
  /\ ctl["c1"].exists /\ ~ctl["c1"].enviado
  /\ ctl["c1"].processandoDesde = NULL
  /\ ctl["c1"].tentativas >= 1

(* A lock left on the row of c with no invocation for c running *)
Abandoned(c) ==
  /\ ctl[c].exists
  /\ ctl[c].processandoDesde # NULL
  /\ \A q \in Procs : inv[q].consultaId # c

(* The row of c is as the cleanup of the batch run of p left it: every     *)
(* existing row was updated by that cleanup and none was touched since.    *)
Healed(p, c) ==
  /\ ctl[c].exists
  /\ cleaned[p] >= 1
  /\ cleaned[p] = Cardinality({d \in Consultas : ctl[d].exists})
  /\ ctl[c].processandoDesde = NULL
  /\ ~ctl[c].enviado

(* c is among the candidates the find step of p selected, and the loop     *)
(* has started                                                             *)
Selected(p, c) ==
  /\ pc'[p] = "check"
  /\ \E i \in 1..Len(pendentes'[p]) : pendentes'[p][i].consulta_id = c
  /\ inv'[p].consultaId = pendentes'[p][1].consulta_id

VouchersOf(seq) == [i \in 1..Len(seq) |-> seq[i].voucher]

(* C26: in a live batch run, whatever each sendToSTT call returns or       *)
(* raises, the loop calls sendToSTT for the head of the remaining list,    *)
(* adds exactly one detail entry for it (status ERROR and erros + 1 when   *)
(* the call raised), goes on with the rest of the list, and returns only   *)
(* when the list is exhausted, with one detail entry per candidate in the  *)
(* order of the list.                                                      *)
C26_FaultDoesNotAbort ==
  /\ [](\A p \in Procs :
          pc[p] \in {"loop", "call", "count", "caught"}
          => /\ Len(report[p].detalhes) + Len(pendentes[p]) = report[p].total
             /\ pc[p] # "loop"
                  => /\ pendentes[p] # << >>
                     /\ inv[p].consultaId = Head(pendentes[p]).consulta_id
                     /\ inv[p].voucher = Head(pendentes[p]).voucher)
  /\ [][\A p \in Procs :
          /\ (pc[p] \in {"count", "caught"})
             => /\ report'[p].detalhes =
                     Append(report[p].detalhes, report'[p].detalhes[
                                                  Len(report[p].detalhes) + 1])
                /\ VouchersOf(report'[p].detalhes) \o VouchersOf(pendentes'[p])
                     = VouchersOf(report[p].detalhes) \o VouchersOf(pendentes[p])
                /\ pendentes'[p] = Tail(pendentes[p])
                /\ pc'[p] = IF pendentes'[p] = << >> THEN "idle" ELSE "call"
          /\ pc[p] = "caught"
             => /\ report'[p].erros = report[p].erros + 1
                /\ report'[p].detalhes[Len(report'[p].detalhes)].status = "ERROR"
          /\ (pc[p] # "idle" /\ pc'[p] = "idle")
             => /\ pendentes'[p] = << >>
                /\ Len(report'[p].detalhes) = report'[p].total]_vars

C26_Witness ==
  /\ pc["p1"] = "idle"
  /\ report["p1"].total = 2
  /\ Len(report["p1"].detalhes) = 2
  /\ VouchersOf(report["p1"].detalhes) = <<"V1", "V2">>
  /\ report["p1"].processados = 1
  /\ report["p1"].erros = 1 /\ report["p1"].sucesso = 1
  /\ report["p1"].detalhes[1].status = "ERROR"
  /\ report["p1"].detalhes[2].status = "SENT"

(* C21: with batch runs as the only trigger, overlapping ones included, no *)
(* row's tentativas exceeds 3 and no record is dispatched more than 3      *)
(* times.                                                                  *)
C21_BoundedRetries ==
  \A c \in Consultas :
    /\ ctl[c].tentativas <= MaxRetryTentativas
    /\ dispatches[c] <= MaxRetryTentativas

(* The invocation of p is on the path taken when buscarDadosConsulta       *)
(* returned null                                                           *)
NotFoundPath(p) ==
  \/ pc[p] = "notfound"
  \/ /\ pc[p] = "finally"
     /\ inv[p].ret.reason.text = "Consulta nao encontrada"

(* C31: when buscarDadosConsulta returns null (record absent or the query  *)
(* failed) after the lock was acquired, the invocation builds and          *)
(* dispatches nothing, its only write is processando_desde = NULL (so      *)
(* proximo_retry, resposta_erro and the tentativas incremented by          *)
(* acquireLock keep their values), and it returns ERROR.                   *)
C31_NotFoundReleasesOnly ==
  [][\A p \in Procs :
       LET c == inv[p].consultaId IN
       (NotFoundPath(p) /\ Moves(p))
       => /\ inv[p].lockAcquired
          /\ ctl'[c] = [ctl[c] EXCEPT !.processandoDesde = NULL]
          /\ \A d \in Consultas \ {c} : ctl'[d] = ctl[d]
          /\ dispatches' = dispatches
          /\ inv[p].payload = NoPayload /\ inv[p].response = NoResponse
          /\ pc[p] = "notfound"
               => /\ pc'[p] = "finally"
                  /\ inv'[p].ret.status = "ERROR" /\ ~inv'[p].ret.success
                  /\ inv'[p].payload = NoPayload
          /\ pc[p] = "finally"
               => /\ result'[p].status = "ERROR" /\ ~result'[p].success
                  /\ pc'[p] \in {"idle", "check"}]_vars

C31_Witness ==
  \E p \in Procs :
    /\ pc[p] = "idle"
    /\ result[p].status = "ERROR"
    /\ result[p].reason.text = "Consulta nao encontrada"
    /\ ctl["c1"].exists /\ ctl["c1"].tentativas = 1
    /\ ctl["c1"].processandoDesde = NULL
    /\ ctl["c1"].proximoRetry = NULL
    /\ ctl["c1"].respostaErro = ""
    /\ ~ctl["c1"].enviado
    /\ dispatches["c1"] = 0

(* The invocation of p is past an acquireLock that returned false *)
LockFailedPath(p) ==
  \/ pc[p] = "recheck"
  \/ pc[p] = "finally" /\ inv[p].ret.status = "LOCK_FAILED"

(* C32: when the row already holds enviado = true with status 200 at the   *)
(* acquireLock of an invocation whose canSendToSTT had allowed, the        *)
(* acquireLock returns false and writes nothing; the invocation runs the   *)
(* second canSendToSTT, returns LOCK_FAILED with that check's reason (the  *)
(* fixed text when it gives none), fetches, builds and dispatches nothing, *)
(* and leaves tentativas, enviado and the response fields as they were.    *)
C32_LockFailedAfterDelivery ==
  [][\A p \in Procs :
       LET c == inv[p].consultaId IN
       /\ (pc[p] = "lock" /\ Moves(p) /\ Delivered200(c))
          => /\ ~inv'[p].lockAcquired
             /\ pc'[p] = "recheck"
             /\ ctl' = ctl
       /\ (LockFailedPath(p) /\ Moves(p))
          => /\ ctl'[c] = [ctl[c] EXCEPT
                             !.processandoDesde =
                               IF pc[p] = "finally" THEN NULL ELSE @]
             /\ dispatches' = dispatches
             /\ inv[p].payload = NoPayload /\ inv[p].response = NoResponse
             /\ pc[p] = "recheck"
                  => /\ pc'[p] = "finally"
                     /\ inv'[p].ret.status = "LOCK_FAILED"
                     /\ ~inv'[p].ret.success
                     /\ Delivered200(c)
                          => inv'[p].ret.reason =
                               [text |-> "Ja enviado com sucesso em",
                                arg |-> ctl[c].dataEnvio]
                     /\ inv'[p].ret.reason # NoReason
             /\ pc[p] = "finally"
                  => /\ result'[p] = inv[p].ret
                     /\ pc'[p] \in {"idle", "check"}]_vars

C32_Witness ==
  \E p \in Procs :
    /\ pc[p] = "idle"
    /\ result[p].status = "LOCK_FAILED" /\ ~result[p].success
    /\ result[p].reason.text = "Ja enviado com sucesso em"
    /\ Delivered200("c1")
    /\ ctl["c1"].tentativas = 1
    /\ dispatches["c1"] = 1

(* Positions of a process inside sendToSTT *)
SendPositions ==
  {"check", "lock", "recheck", "fetch", "notfound", "build", "dispatch",
   "record", "catch", "finally"}

(* Moves of one invocation from position to position: program order, and   *)
(* the loss of the worker while it holds the lock.                         *)
SendOrder ==
  { <<"check", "lock">>, <<"check", "finally">>,
    <<"lock", "fetch">>, <<"lock", "recheck">>, <<"recheck", "finally">>,
    <<"fetch", "build">>, <<"fetch", "notfound">>, <<"notfound", "finally">>,
    <<"build", "dispatch">>, <<"build", "catch">>,
    <<"dispatch", "record">>, <<"dispatch", "catch">>,
    <<"record", "finally">>, <<"record", "catch">>,
    <<"catch", "finally">>,
    <<"finally", "idle">>, <<"finally", "check">>,
    <<"fetch", "idle">>, <<"build", "idle">>, <<"dispatch", "idle">>,
    <<"record", "idle">> }

(* The fields only atualizarResultado writes within sendToSTT *)
OutcomeFields(row) ==
  <<row.enviado, row.dataEnvio, row.respostaBody, row.respostaHeaders,
    row.payloadEnviado>>

(* C33: within one invocation the steps follow CHECK, LOCK, FETCH, BUILD,  *)
(* DISPATCH, RECORD, RELEASE: a POST is issued only from the dispatch      *)
(* step, which is reached only after this invocation's canSendToSTT        *)
(* allowed, its acquireLock returned true, the record was fetched and the  *)
(* payload built; the outcome is written only by the record step, with the *)
(* response the dispatch returned; the releaseLock of the finally block is *)
(* the last write of the invocation.                                       *)
C33_StepOrder ==
  /\ [](\A p \in Procs :
          /\ pc[p] \in {"fetch", "notfound", "build", "dispatch", "record"}
               => inv[p].lockAcquired
          /\ pc[p] \in {"dispatch", "record"} => inv[p].payload # NoPayload
          /\ pc[p] = "record" => inv[p].response.status # NULL
          /\ pc[p] \in {"check", "lock", "recheck", "fetch", "notfound", "build"}
               => inv[p].response = NoResponse)
  /\ [][\A p \in Procs :
          LET c == inv[p].consultaId IN
          (pc[p] \in SendPositions /\ Moves(p))
          => /\ pc'[p] # pc[p] => <<pc[p], pc'[p]>> \in SendOrder
             /\ (pc[p] = "check" /\ pc'[p] = "lock")
                  => /\ ~Delivered200(c)
                     /\ ~(/\ ctl[c].processandoDesde # NULL
                          /\ ctl[c].processandoDesde > now - LockTimeoutMinutes)
             /\ (pc[p] = "lock" /\ pc'[p] = "fetch") => inv'[p].lockAcquired
             /\ dispatches' # dispatches => pc[p] = "dispatch"
             /\ OutcomeFields(ctl'[c]) # OutcomeFields(ctl[c])
                  => /\ pc[p] = "record"
                     /\ ctl'[c].respostaStatusCode = inv[p].response.status
             /\ ctl'[c] # ctl[c]
                  => pc[p] \in {"lock", "notfound", "record", "catch", "finally"}
             /\ pc[p] = "finally"
                  => /\ ctl'[c] = [ctl[c] EXCEPT !.processandoDesde = NULL]
                     /\ inv'[p] = NoInv \/ inv'[p].ret = NoResult]_vars

C33_Witness ==
  \E p \in Procs :
    /\ pc[p] = "finally"
    /\ inv[p].lockAcquired
    /\ inv[p].payload # NoPayload
    /\ inv[p].response.status = 200
    /\ inv[p].ret.status = "SENT"
    /\ dispatches[inv[p].consultaId] = 1
    /\ Delivered200(inv[p].consultaId)
    /\ ctl[inv[p].consultaId].tentativas = 1

(* C34: when gerarPdfEvolucao fails it yields the empty string and does    *)
(* not raise: the build step produces the payload with pdf = "" (its only  *)
(* error is the one it also has with a rendered document), the dispatch    *)
(* step posts it, and the record step stores it with the outcome of the    *)
(* response, enviado = true on a 200.                                      *)
C34_RenderFailureDoesNotBlock ==
  [][\A p \in Procs :
       LET c == inv[p].consultaId IN
       (env.pdf = "" /\ Moves(p))
       => /\ (pc[p] = "build" /\ pc'[p] = "dispatch")
               => /\ inv'[p].payload =
                       [casoId |-> ConsultaRow(c).codigoInterno, pdf |-> ""]
                  /\ inv'[p].error = ""
          /\ (pc[p] = "build" /\ pc'[p] = "catch")
               => inv'[p].error = "Invalid time value"
          /\ (pc[p] = "dispatch" /\ pc'[p] # "idle")
               => /\ inv[p].payload.pdf = ""
                  /\ dispatches'[c] = dispatches[c] + 1
                  /\ pc'[p] \in {"record", "catch"}
          /\ (pc[p] = "record" /\ pc'[p] = "finally")
               => /\ ctl'[c].payloadEnviado = inv[p].payload
                  /\ ctl'[c].payloadEnviado.pdf = ""
                  /\ ctl'[c].respostaStatusCode = inv[p].response.status
                  /\ ctl'[c].enviado = (inv[p].response.status = 200)
                  /\ inv'[p].ret.status = "SENT"]_vars

C34_Witness ==
  /\ env.pdf = ""
  /\ pc["p1"] = "idle"
  /\ result["p1"].status = "SENT" /\ result["p1"].httpStatus = 200
  /\ Delivered200("c1")
  /\ ctl["c1"].payloadEnviado = [casoId |-> "K1", pdf |-> ""]
  /\ ctl["c1"].tentativas = 1
  /\ dispatches["c1"] = 1

(* The free-text fields of the payload *)
FreeTextFields ==
  {"queixaDuracao", "tipoQueixa", "historiaPregressaMolestiaAtual",
   "detalharDiagnostico", "hipoteseDiagnostica", "conduta", "desfecho"}

(* The defaults buildPayload gives a record with no evolucao, apart from   *)
(* the attendance end                                                      *)
NoNoteDefaults(payload, src) ==
  /\ payload.status = "Efetivo"
  /\ payload.tipoAtendimentoMedico = "OMV"
  /\ \A f \in FreeTextFields : payload[f] = ""
  /\ ~payload.atestado /\ ~payload.prescricao /\ ~payload.solicitaoExames
  /\ payload.dataInicioAtendimento =
       IF src.atendimentoIniciadoEm # NULL
       THEN src.atendimentoIniciadoEm - SaoPauloOffsetMinutes
       ELSE IF src.profissionalAcessouEm # NULL
       THEN src.profissionalAcessouEm - SaoPauloOffsetMinutes
       ELSE NULL

(* C35 as stated: for a record with no evolucao buildPayload does not fail *)
(* and yields status 'Efetivo', tipoAtendimentoMedico 'OMV', every         *)
(* free-text field '', every flag false, the start milestone fallback, and *)
(* dataFimAtendimento = the current time.                                  *)
C35_AsStated ==
  [][\A p \in Procs :
       (pc[p] = "build" /\ Moves(p) /\ ~env.record.evolucao.exists)
       => /\ pc'[p] = "dispatch"
          /\ NoNoteDefaults(inv'[p].payload, env.record)
          /\ inv'[p].payload.dataFimAtendimento = now - SaoPauloOffsetMinutes]_vars

(* C35, amended: as above, except that dataFimAtendimento is the           *)
(* completion milestone when one is recorded and the current time          *)
(* otherwise, both in the civil time of America/Sao_Paulo; besides,        *)
(* antecedentesPessoais is 'Nao', prioridade 'Normal' and cids empty.      *)
C35_PayloadDefaults ==
  [][\A p \in Procs :
       (pc[p] = "build" /\ Moves(p) /\ ~env.record.evolucao.exists)
       => /\ pc'[p] = "dispatch"
          /\ inv'[p].error = ""
          /\ NoNoteDefaults(inv'[p].payload, env.record)
          /\ inv'[p].payload.dataFimAtendimento =
               (IF env.record.atendimentoFinalizadoEm # NULL
                THEN env.record.atendimentoFinalizadoEm ELSE now)
               - SaoPauloOffsetMinutes
          /\ inv'[p].payload.antecedentesPessoais = "Nao"
          /\ inv'[p].payload.prioridade = "Normal"
          /\ inv'[p].payload.cids = << >>
          /\ inv'[p].payload.pdf = env.pdf]_vars

C35_Witness ==
  /\ pc["p1"] = "dispatch"
  /\ ~env.record.evolucao.exists
  /\ env.record.atendimentoFinalizadoEm = NULL
  /\ env.record.atendimentoIniciadoEm = NULL
  /\ env.record.profissionalAcessouEm # NULL
  /\ inv["p1"].payload.status = "Efetivo"
  /\ inv["p1"].payload.conduta = ""
  /\ inv["p1"].payload.dataFimAtendimento = now - SaoPauloOffsetMinutes
  /\ inv["p1"].payload.dataInicioAtendimento =
       env.record.profissionalAcessouEm - SaoPauloOffsetMinutes

(* C40: for every stored record, the payload showPayload returns (built by *)
(* buildPayloadFromPrisma) equals, field by field, the payload sendToSTT   *)
(* builds for the same record (by buildPayload) - the case code of a       *)
(* record with no scheduling row included - and showPayload writes no      *)
(* control row, takes no lock and posts nothing.                           *)
C40_PreviewEqualsSent ==
  [][\A p \in Procs :
       (pc[p] = "show" /\ Moves(p))
       => /\ ctl' = ctl
          /\ dispatches' = dispatches
          /\ \A q \in Procs :
               (pc[q] = "dispatch" /\ mode[q] = "send")
               => \A f \in DOMAIN inv[q].payload :
                    /\ f \in DOMAIN inv'[p].payload
                    /\ inv'[p].payload[f] = inv[q].payload[f]]_vars

(* C36: in every reachable state a control row with enviado = true has     *)
(* resposta_status_code = 200 and data_envio set.                          *)
C36_DeliveredHasStatus200 ==
  \A c \in Consultas :
    (ctl[c].exists /\ ctl[c].enviado)
    => (ctl[c].respostaStatusCode = 200 /\ ctl[c].dataEnvio # NULL)

(* The row of c holds a lock younger than the configured lock timeout *)
WithinLease(c) ==
  /\ ctl[c].exists
  /\ ctl[c].processandoDesde # NULL
  /\ now - ctl[c].processandoDesde < LockTimeoutMinutes

(* The consultas the find step of p returned, in the report of a dry run   *)
(* or in the candidate list of a live run                                  *)
Returned(p) ==
  {c \in Consultas :
     \/ \E i \in 1..Len(report'[p].detalhes) :
          report'[p].detalhes[i].voucher = ConsultaRow(c).voucher
     \/ \E i \in 1..Len(pendentes'[p]) : pendentes'[p][i].consulta_id = c}

(* C38: under every configured lock timeout, a record whose                *)
(* processando_desde is younger than the timeout is not returned by        *)
(* findPendingConsultas, and an acquireLock on it leaves its               *)
(* processando_desde as it was.                                            *)
C38_NoTakeoverWithinLease ==
  [][\A p \in Procs :
       /\ (pc[p] = "find" /\ pc'[p] # "find")
          => \A c \in Consultas : WithinLease(c) => c \notin Returned(p)
       /\ (pc[p] = "lock" /\ pc'[p] # "lock" /\ WithinLease(inv[p].consultaId))
          => ctl'[inv[p].consultaId].processandoDesde
               = ctl[inv[p].consultaId].processandoDesde]_vars

(* The row of c with processando_desde cleared and every other column kept *)
OnlyLockCleared(c) == [ctl[c] EXCEPT !.processandoDesde = NULL]

(* C39: cleanupStuckLocks leaves unchanged every row whose                 *)
(* processando_desde is null or younger than twice the lock timeout and    *)
(* every row with enviado = true, and changes nothing but                  *)
(* processando_desde on the rows it reclaims; releaseLock changes nothing  *)
(* but processando_desde of the row of its consulta, changes nothing when  *)
(* that is already null, and never raises: the step that calls it goes on  *)
(* to its return also when the UPDATE fails.                               *)
C39_ReleaseFrame ==
  [][\A p \in Procs :
       /\ (pc[p] = "cleanup" /\ pc'[p] # "cleanup")
          => \A c \in Consultas :
               /\ (\/ ~ctl[c].exists
                   \/ ctl[c].processandoDesde = NULL
                   \/ now - ctl[c].processandoDesde < 2 * LockTimeoutMinutes
                   \/ ctl[c].enviado)
                  => ctl'[c] = ctl[c]
               /\ ctl'[c] \in {ctl[c], OnlyLockCleared(c)}
       /\ (pc[p] \in {"notfound", "finally"} /\ pc'[p] # pc[p])
          => /\ \A c \in Consultas :
                  /\ c # inv[p].consultaId => ctl'[c] = ctl[c]
                  /\ ctl'[c] \in {ctl[c], OnlyLockCleared(c)}
                  /\ ctl[c].processandoDesde = NULL => ctl'[c] = ctl[c]
             /\ pc[p] = "notfound" => pc'[p] = "finally"
             /\ pc[p] = "finally"
                  => (result'[p] = inv[p].ret /\ pc'[p] \in {"idle", "check"})]_vars

(* The cleanup of a batch run has reclaimed a stuck lock: the row has its  *)
(* attempts and no processando_desde.                                      *)
C39_Witness ==
  /\ pc["p1"] = "find"
  /\ cleaned["p1"] >= 1
  /\ \E c \in Consultas :
       /\ ctl[c].exists /\ ~ctl[c].enviado
       /\ ctl[c].processandoDesde = NULL /\ ctl[c].tentativas >= 1

(* The downstream system has answered 200 to a dispatch of c1 that is one  *)
(* of the first three attempts                                             *)
AnsweredOk ==
  \E p \in Procs :
    /\ pc[p] = "record"
    /\ inv[p].consultaId = "c1"
    /\ inv[p].response.status = 200
    /\ ctl["c1"].tentativas <= MaxRetryTentativas

(* The three attempts of c1 are used up, the row is not delivered and no   *)
(* invocation for c1 is running                                            *)
Exhausted ==
  /\ ctl["c1"].exists /\ ~ctl["c1"].enviado
  /\ ctl["c1"].tentativas >= MaxRetryTentativas
  /\ \A p \in Procs : inv[p].consultaId # "c1"

(* C37: with batch runs as the only trigger, once the downstream system    *)
(* has answered 200 to one of the first three attempts of a record, the    *)
(* control row reaches enviado = true with status 200 and stays so (no     *)
(* later run selects the record); and once three attempts have failed the  *)
(* row stays undelivered for ever.                                         *)
C37_EventualDelivery ==
  /\ AnsweredOk ~> [](ctl["c1"].enviado /\ ctl["c1"].respostaStatusCode = 200)
  /\ [](Exhausted => [](~ctl["c1"].enviado))

====
